---------------------------- MODULE Spec2Model ----------------------------
(***************************************************************************)
(* The edge request gate of the AI code explainer worker: the middleware   *)
(* of app/lib/middleware.ts (body size limit, in-memory rate limiter, CORS,*)
(* security headers) and the fetch handler of workers/app.ts driving it;   *)
(* behind the gate, the action of routes/explain-code.ts, and in the       *)
(* browser the chat page with its TypingAnimation.                         *)
(*                                                                         *)
(* Strings are sequences of tokens.  A string that the code parses or     *)
(* formats (Content-Length, the size limit, numbers written into headers)  *)
(* is a sequence of one-character tokens; any other string is one token.   *)
(* Header names are kept in lower case, as the Headers class compares them.*)
(***************************************************************************)
EXTENDS Integers, Sequences, FiniteSets, TLC

VARIABLES
    now,          \* Date.now(), milliseconds
    maxRequests,  \* RateLimiter.maxRequests (private readonly)
    windowMs,     \* RateLimiter.windowMs (private readonly)
    bodySizeLimit, \* options.bodySizeLimit, as applyMiddleware is given it
    requests,     \* RateLimiter.requests: clientId -> [count, resetAt]
    pc,           \* per in-flight fetch call: the await it is suspended at
    req,          \* per fetch call: the Request
    bodyCheck,    \* per fetch call: result of checkBodySizeLimit
    middlewareResult, \* per fetch call: result of applyMiddleware
    resp,         \* per fetch call: the Response returned by fetch
    evaluated,    \* history: the checks each fetch call has run, in order
    admitted,     \* history: admissions in each client's latest window
    served,       \* history: number of requests accepted by fetch so far
    ticks,        \* history: number of clock advances so far
    log,          \* history: verdicts of checkRateLimit calls, in order
    handlerResponse, \* the Response addSecurityHeaders is given
    decorated,    \* the Response addSecurityHeaders returned
    message,      \* HomePage: the latest assistant message
    completionTimeout, \* HomePage: ids of the messages whose setTimeout is pending
    displayedText,\* TypingAnimation: state displayedText
    isComplete,   \* TypingAnimation: state isComplete
    intervalRef,  \* TypingAnimation: intervalRef.current is set
    stoppedRef,   \* TypingAnimation: stoppedRef.current
    currentIndex, \* TypingAnimation: currentIndex of the running effect
    onComplete,   \* TypingAnimation: which onComplete the effect last ran with
    actionPc,     \* explain-code action: the await it is suspended at
    formData,     \* explain-code action: the form of the request
    aiRuns,       \* history: the inputs AI.run was called with, in order
    aiResult,     \* explain-code action: what AI.run settled with
    actionResponse \* explain-code action: the Response returned

\* The state of the middleware and fetch, of the decoration on its own, of
\* the chat page, and of the explain-code action.
decorateVars == <<handlerResponse, decorated>>
typingVars == <<message, completionTimeout, displayedText, isComplete,
                intervalRef, stoppedRef, currentIndex, onComplete>>
actionVars == <<actionPc, formData, aiRuns, aiResult, actionResponse>>
gateVars == <<now, maxRequests, windowMs, bodySizeLimit, requests, pc, req,
              bodyCheck, middlewareResult, resp, evaluated, admitted, served,
              ticks, log>>

vars == <<now, maxRequests, windowMs, bodySizeLimit, requests, pc, req, bodyCheck,
          middlewareResult, resp, evaluated, admitted, served, ticks, log,
          decorateVars, typingVars, actionVars>>

-----------------------------------------------------------------------------
(* Bounds of the model.                                                    *)

\* Largest quota the constructor of RateLimiter is given in Spec.
MaxQuota == 2
\* Number of fetch calls that can be in flight at once.
NumHandlers == 2
\* Number of requests the worker receives in one behaviour of Spec.
MaxServed == 2
\* Number of clock advances in one behaviour of Spec and SpecConcurrent.
MaxTicks == 1
\* Number of checkRateLimit calls in one behaviour of SpecLimiter.
MaxCalls == 4
\* Number of clock advances in one behaviour of SpecLimiter.
MaxElapses == 2

-----------------------------------------------------------------------------
(* Strings.                                                                *)

\* null, as returned by Headers.get for a header that is not there.
Null == <<"<null>">>

Digit == {"0", "1", "2", "3", "4", "5", "6", "7", "8", "9"}

DigitValue(c) ==
    CASE c = "0" -> 0 [] c = "1" -> 1 [] c = "2" -> 2 [] c = "3" -> 3
      [] c = "4" -> 4 [] c = "5" -> 5 [] c = "6" -> 6 [] c = "7" -> 7
      [] c = "8" -> 8 [] c = "9" -> 9

DigitChar(d) ==
    CASE d = 0 -> "0" [] d = 1 -> "1" [] d = 2 -> "2" [] d = 3 -> "3"
      [] d = 4 -> "4" [] d = 5 -> "5" [] d = 6 -> "6" [] d = 7 -> "7"
      [] d = 8 -> "8" [] d = 9 -> "9"

\* A JavaScript string is falsy exactly when it is null or empty.
Truthy(s) == s # Null /\ s # <<>>

\* Number.prototype.toString for an integer.
RECURSIVE NatToString(_)
NatToString(n) ==
    IF n < 10 THEN <<DigitChar(n)>>
    ELSE NatToString(n \div 10) \o <<DigitChar(n % 10)>>

toString(n) == IF n < 0 THEN <<"-">> \o NatToString(-n) ELSE NatToString(n)

\* The value of a run of digits.
RECURSIVE DigitsValue(_)
DigitsValue(s) ==
    IF s = <<>> THEN 0
    ELSE 10 * DigitsValue(SubSeq(s, 1, Len(s) - 1)) + DigitValue(s[Len(s)])

\* Length of the longest prefix of s made of tokens of set S.
RECURSIVE PrefixIn(_, _)
PrefixIn(s, S) ==
    IF s # <<>> /\ Head(s) \in S THEN 1 + PrefixIn(Tail(s), S) ELSE 0

RECURSIVE Pow10(_)
Pow10(k) == IF k = 0 THEN 1 ELSE 10 * Pow10(k - 1)

\* parseInt(s, 10): optional blanks, optional sign, then the leading digits;
\* <<>> stands for NaN, <<n>> for the number n.
parseInt(s) ==
    LET b    == PrefixIn(s, {" "})
        t    == SubSeq(s, b + 1, Len(s))
        neg  == t # <<>> /\ Head(t) = "-"
        sgn  == t # <<>> /\ Head(t) \in {"-", "+"}
        u    == IF sgn THEN Tail(t) ELSE t
        k    == PrefixIn(u, Digit)
        v    == DigitsValue(SubSeq(u, 1, k))
    IN  IF k = 0 THEN <<>> ELSE <<IF neg THEN -v ELSE v>>

Letter == {"b", "g", "k", "m", "t", "x"}

\* String.prototype.toLowerCase on the letters a size string is written with.
LowerChar(c) ==
    CASE c = "B" -> "b" [] c = "G" -> "g" [] c = "K" -> "k" [] c = "M" -> "m"
      [] c = "T" -> "t" [] c = "X" -> "x" [] OTHER -> c

toLowerCase(s) == [i \in 1..Len(s) |-> LowerChar(s[i])]

\* The units as powers of 1000.
units_Decimal(unit) ==
    CASE unit = <<"b">> -> 1
      [] unit = <<"k", "b">> -> 1000
      [] unit = <<"m", "b">> -> 1000 * 1000
      [] unit = <<"g", "b">> -> 1000 * 1000 * 1000
      [] OTHER -> 0

\* const units: Record<string, number>; 0 stands for undefined.
units(unit) ==
    CASE unit = <<"b">> -> 1
      [] unit = <<"k", "b">> -> 1024
      [] unit = <<"m", "b">> -> 1024 * 1024
      [] unit = <<"g", "b">> -> 1024 * 1024 * 1024
      [] OTHER -> 0

\* parseSize: <<>> stands for the thrown Error, <<n>> for the returned number.
\* The string must match /^(\d+(?:\.\d+)?)\s*([a-z]+)?$/ after toLowerCase.
parseSize(size) ==
    LET s      == toLowerCase(size)
        i      == PrefixIn(s, Digit)
        r1     == SubSeq(s, i + 1, Len(s))
        f      == IF Len(r1) >= 2 /\ r1[1] = "." /\ r1[2] \in Digit
                  THEN PrefixIn(Tail(r1), Digit) ELSE 0
        r2     == IF f > 0 THEN SubSeq(r1, f + 2, Len(r1)) ELSE r1
        w      == PrefixIn(r2, {" "})
        r3     == SubSeq(r2, w + 1, Len(r2))
        l      == PrefixIn(r3, Letter)
        match  == i > 0 /\ l = Len(r3)
        \* parseFloat(match[1]) as the fraction num / 10^f
        num    == DigitsValue(SubSeq(s, 1, i)) * Pow10(f)
                  + (IF f > 0 THEN DigitsValue(SubSeq(r1, 2, f + 1)) ELSE 0)
        unit   == IF l > 0 THEN r3 ELSE <<"b">>
        multiplier == IF units(unit) # 0 THEN units(unit) ELSE 1
    IN  IF ~match THEN <<>> ELSE <<(num * multiplier) \div Pow10(f)>>

-----------------------------------------------------------------------------
(* Requests and responses.                                                 *)

\* Headers.get(name): the value, or null when the header is not there.
Get(headers, name) == IF name \in DOMAIN headers THEN headers[name] ELSE Null

\* Headers.set(name, value)
Set(headers, name, value) ==
    [n \in DOMAIN headers \cup {name} |-> IF n = name THEN value ELSE headers[n]]

\* The empty Headers object / the empty object literal.
Empty == <<>>

\* new Response(body, {status, headers})
Response(body, status, headers) ==
    [status |-> status, headers |-> headers, body |-> body]

\* Response.json(data, {status, headers}): the body is the data, the content
\* type is set unless the caller's headers give one.
ResponseJson(data, status, headers) ==
    Response(data, status,
             IF "content-type" \in DOMAIN headers THEN headers
             ELSE Set(headers, "content-type", <<"application/json">>))

\* env.FRONTEND_URL of wrangler.jsonc
FRONTEND_URL == <<"https://your-domain.com">>

\* const allowedOrigin = env.FRONTEND_URL || "http://localhost:5173"
allowedOrigin ==
    IF Truthy(FRONTEND_URL) THEN FRONTEND_URL ELSE <<"http://localhost:5173">>

\* The options fetch passes to applyMiddleware.
Options ==
    [bodySizeLimit |-> <<"1", "0", "m", "b">>,
     rateLimit |-> [maxRequests |-> 100, windowMs |-> 15 * 60 * 1000],
     securityHeaders |-> TRUE]

-----------------------------------------------------------------------------
(* checkBodySizeLimit                                                      *)

\* checkBodySizeLimit rejecting a body of exactly the limit.
checkBodySizeLimit_AtLimit(request, limit) ==
    LET contentLength == Get(request.headers, "content-length")
        sizeLimit     == parseSize(limit)
        requestSize   == parseInt(contentLength)
    IN  IF Truthy(contentLength) /\ sizeLimit # <<>> /\ requestSize # <<>>
           /\ requestSize[1] >= sizeLimit[1]
        THEN [valid |-> FALSE,
              error |-> ResponseJson(
                  [error |-> <<"Payload too large">>,
                   message |-> <<"Request body size exceeds limit">>],
                  413, Empty)]
        ELSE [valid |-> TRUE]

\* checkBodySizeLimit rejecting a request that declares no length.
checkBodySizeLimit_FailClosed(request, limit) ==
    LET contentLength == Get(request.headers, "content-length")
        sizeLimit     == parseSize(limit)
        requestSize   == parseInt(contentLength)
        tooLarge(size) ==
            [valid |-> FALSE,
             error |-> ResponseJson(
                 [error |-> <<"Payload too large">>,
                  message |-> <<"Request body size (">> \o size
                      \o <<" bytes) exceeds limit (">>
                      \o toString(sizeLimit[1]) \o <<" bytes)">>],
                 413, Empty)]
    IN  IF sizeLimit = <<>>
        THEN [threw |-> TRUE]
        ELSE IF ~Truthy(contentLength)
        THEN tooLarge(<<"unknown">>)
        ELSE IF requestSize # <<>> /\ requestSize[1] > sizeLimit[1]
        THEN tooLarge(toString(requestSize[1]))
        ELSE [valid |-> TRUE]

\* The result object {valid, error?}; threw stands for the promise rejected
\* by the Error of parseSize.
checkBodySizeLimit(request, limit) ==
    LET contentLength == Get(request.headers, "content-length")
        sizeLimit     == parseSize(limit)
        requestSize   == parseInt(contentLength)
    IN  IF Truthy(contentLength)
        THEN IF sizeLimit = <<>>
             THEN [threw |-> TRUE]
             ELSE IF requestSize # <<>> /\ requestSize[1] > sizeLimit[1]
                  THEN [valid |-> FALSE,
                        error |-> ResponseJson(
                            [error |-> <<"Payload too large">>,
                             message |-> <<"Request body size (">>
                                 \o toString(requestSize[1])
                                 \o <<" bytes) exceeds limit (">>
                                 \o toString(sizeLimit[1]) \o <<" bytes)">>],
                            413, Empty)]
                  ELSE [valid |-> TRUE]
        ELSE [valid |-> TRUE]

-----------------------------------------------------------------------------
(* class RateLimiter                                                       *)

\* The string "unknown", character by character: getClientId joins it with
\* the values of headers into one string.
unknown == <<"u", "n", "k", "n", "o", "w", "n">>

\* getClientId keying on the address together with the user agent.
getClientId_IpAndAgent(request) ==
    LET cfConnectingIp == Get(request.headers, "cf-connecting-ip")
        ua        == Get(request.headers, "user-agent")
        org       == Get(request.headers, "origin")
        userAgent == IF Truthy(ua) THEN ua ELSE unknown
        origin    == IF Truthy(org) THEN org ELSE unknown
    IN  IF Truthy(cfConnectingIp) THEN cfConnectingIp \o <<"-">> \o userAgent
        ELSE userAgent \o <<"-">> \o origin

\* `${userAgent}-${origin}` with "unknown" for a missing or empty header.
getClientId(request) ==
    LET cfConnectingIp == Get(request.headers, "cf-connecting-ip")
        ua        == Get(request.headers, "user-agent")
        org       == Get(request.headers, "origin")
        userAgent == IF Truthy(ua) THEN ua ELSE unknown
        origin    == IF Truthy(org) THEN org ELSE unknown
    IN  IF Truthy(cfConnectingIp) THEN cfConnectingIp
        ELSE userAgent \o <<"-">> \o origin

\* isAllowed with one slip, for the checks of the claims below: "offByOne"
\* compares the count with > instead of >=, "lostUpdate" does not write the
\* count back to the table, "noExpiry" never starts a fresh window for a known
\* client, "boundary" starts the fresh window at t = resetAt already,
\* "stale" computes remaining from the count before the increment, "extend"
\* restarts the window of a client on each denial.
isAllowedVariant(table, request, t, slip) ==
    LET clientId == getClientId(request)
        expired  == IF slip = "noExpiry" THEN FALSE
                    ELSE IF slip = "boundary"
                         THEN t >= table[clientId].resetAt
                         ELSE t > table[clientId].resetAt
        full     == IF slip = "offByOne"
                    THEN table[clientId].count > maxRequests
                    ELSE table[clientId].count >= maxRequests
        count    == table[clientId].count + 1
    IN  IF clientId \notin DOMAIN table \/ expired
        THEN [requests |-> IF slip = "lostUpdate" THEN table
                           ELSE Set(table, clientId,
                                    [count |-> 1, resetAt |-> t + windowMs]),
              result |-> [allowed |-> TRUE,
                          remaining |-> maxRequests - 1,
                          resetAt |-> t + windowMs]]
        ELSE IF full
        THEN [requests |-> IF slip = "extend"
                           THEN Set(table, clientId,
                                    [count |-> table[clientId].count,
                                     resetAt |-> t + windowMs])
                           ELSE table,
              result |-> [allowed |-> FALSE,
                          remaining |-> 0,
                          resetAt |-> IF slip = "extend" THEN t + windowMs
                                      ELSE table[clientId].resetAt]]
        ELSE [requests |-> IF slip = "lostUpdate" THEN table
                           ELSE Set(table, clientId,
                                    [count |-> count,
                                     resetAt |-> table[clientId].resetAt]),
              result |-> [allowed |-> TRUE,
                          remaining |-> IF slip = "stale"
                                        THEN maxRequests - (count - 1)
                                        ELSE maxRequests - count,
                          resetAt |-> table[clientId].resetAt]]

isAllowed_OffByOne(table, request, t) ==
    isAllowedVariant(table, request, t, "offByOne")
isAllowed_LostUpdate(table, request, t) ==
    isAllowedVariant(table, request, t, "lostUpdate")
isAllowed_NoExpiry(table, request, t) ==
    isAllowedVariant(table, request, t, "noExpiry")
isAllowed_FreshAtResetAt(table, request, t) ==
    isAllowedVariant(table, request, t, "boundary")
isAllowed_StaleRemaining(table, request, t) ==
    isAllowedVariant(table, request, t, "stale")
isAllowed_DenialExtends(table, request, t) ==
    isAllowedVariant(table, request, t, "extend")

\* isAllowed comparing the quota in the fresh window as well: a client is
\* denied from its first request on when maxRequests is below one.
isAllowed_QuotaOnFresh(table, request, t) ==
    LET clientId == getClientId(request)
    IN  IF clientId \notin DOMAIN table \/ t > table[clientId].resetAt
        THEN IF maxRequests < 1
             THEN [requests |-> Set(table, clientId,
                                    [count |-> 0, resetAt |-> t + windowMs]),
                   result |-> [allowed |-> FALSE,
                               remaining |-> 0,
                               resetAt |-> t + windowMs]]
             ELSE [requests |-> Set(table, clientId,
                                    [count |-> 1, resetAt |-> t + windowMs]),
                   result |-> [allowed |-> TRUE,
                               remaining |-> maxRequests - 1,
                               resetAt |-> t + windowMs]]
        ELSE IF table[clientId].count >= maxRequests
        THEN [requests |-> table,
              result |-> [allowed |-> FALSE,
                          remaining |-> 0,
                          resetAt |-> table[clientId].resetAt]]
        ELSE [requests |-> Set(table, clientId,
                               [count |-> table[clientId].count + 1,
                                resetAt |-> table[clientId].resetAt]),
              result |-> [allowed |-> TRUE,
                          remaining |-> maxRequests
                                        - (table[clientId].count + 1),
                          resetAt |-> table[clientId].resetAt]]

\* isAllowed on the table `table`, with t the value `now` of its call of
\* Date.now(): the table it leaves and the verdict.
isAllowed(table, request, t) ==
    LET clientId == getClientId(request)
    IN  IF clientId \notin DOMAIN table \/ t > table[clientId].resetAt
        THEN [requests |-> Set(table, clientId,
                               [count |-> 1, resetAt |-> t + windowMs]),
              result |-> [allowed |-> TRUE,
                          remaining |-> maxRequests - 1,
                          resetAt |-> t + windowMs]]
        ELSE IF table[clientId].count >= maxRequests
        THEN [requests |-> table,
              result |-> [allowed |-> FALSE,
                          remaining |-> 0,
                          resetAt |-> table[clientId].resetAt]]
        ELSE [requests |-> Set(table, clientId,
                               [count |-> table[clientId].count + 1,
                                resetAt |-> table[clientId].resetAt]),
              result |-> [allowed |-> TRUE,
                          remaining |-> maxRequests
                                        - (table[clientId].count + 1),
                          resetAt |-> table[clientId].resetAt]]

\* cleanup deleting the entries whose window ends at t as well.
cleanup_AtResetAt(table, t) ==
    [key \in {k \in DOMAIN table : ~(t >= table[k].resetAt)} |-> table[key]]

\* cleanup deleting nothing.
cleanup_KeepsAll(table, t) == table

\* cleanup, with t the value `now` of its call of Date.now(): every entry
\* whose resetAt is in the past is deleted.
cleanup(table, t) ==
    [key \in {k \in DOMAIN table : ~(t > table[k].resetAt)} |-> table[key]]

-----------------------------------------------------------------------------
(* checkRateLimit                                                          *)

\* Math.floor in the place of Math.ceil
Ceil_Floor(a, b) == a \div b

\* Math.ceil(a / b) for b > 0
Ceil(a, b) == -((-a) \div b)

Pad(n, width) ==
    LET d == NatToString(n)
    IN  [i \in 1..(width - Len(d)) |-> "0"] \o d

\* new Date(ms).toISOString(); the clock of the model stays within the first
\* day of the epoch, where the date part is 1970-01-01.
toISOString(ms) ==
    <<"1970-01-01T">> \o Pad(ms \div 3600000, 2) \o <<":">>
        \o Pad((ms \div 60000) % 60, 2) \o <<":">>
        \o Pad((ms \div 1000) % 60, 2) \o <<".">>
        \o Pad(ms % 1000, 3) \o <<"Z">>

\* The global instance is `rateLimiter`: its table is the variable requests,
\* its fields the variables maxRequests and windowMs.  `random` stands for
\* Math.random() < 0.001.  The call runs to its end within one reading of the
\* clock.  Gives the table the call leaves, the verdict of
\* isAllowed, and the returned object {allowed, error?, headers} as `value`.
checkRateLimit(table, request, optMaxRequests, optWindowMs, random) ==
    LET swept   == IF random THEN cleanup(table, now) ELSE table
        call    == isAllowed(swept, request, now)
        result  == call.result
        h1      == Set(Empty, "x-ratelimit-limit", toString(optMaxRequests))
        h2      == Set(h1, "x-ratelimit-remaining", toString(result.remaining))
        headers == IF result.resetAt # 0
                   THEN Set(h2, "x-ratelimit-reset", toISOString(result.resetAt))
                   ELSE h2
    IN  [requests |-> call.requests,
         verdict  |-> result,
         value    |->
            IF ~result.allowed
            THEN [allowed |-> FALSE,
                  error |-> ResponseJson(
                      [error |-> <<"Too many requests">>,
                       message |->
                           <<"Rate limit exceeded. Please try again later.">>],
                      429,
                      Set(headers, "retry-after",
                          toString(Ceil(result.resetAt - now, 1000)))),
                  headers |-> headers]
            ELSE [allowed |-> TRUE, headers |-> headers]]

-----------------------------------------------------------------------------
(* CORS and security headers                                               *)

\* handleCORS answering a preflight that names no origin as it answers one
\* from the allowed origin.
handleCORS_MissingOriginAllowed(request, allowed) ==
    LET origin == Get(request.headers, "origin")
    IN  IF request.method = "OPTIONS"
        THEN IF origin = allowed \/ ~Truthy(origin)
             THEN [isPreflight |-> TRUE,
                   preflightResponse |-> Response(Null, 204,
                       [n \in {"access-control-allow-origin",
                               "access-control-allow-methods",
                               "access-control-allow-headers",
                               "access-control-max-age",
                               "access-control-allow-credentials"} |->
                          CASE n = "access-control-allow-origin" -> allowed
                            [] n = "access-control-allow-methods" ->
                                 <<"GET, POST, PUT, DELETE, PATCH, OPTIONS">>
                            [] n = "access-control-allow-headers" ->
                                 <<"Content-Type, Authorization">>
                            [] n = "access-control-max-age" ->
                                 <<"8", "6", "4", "0", "0">>
                            [] n = "access-control-allow-credentials" ->
                                 <<"true">>])]
             ELSE [isPreflight |-> TRUE,
                   preflightResponse |-> Response(<<"Forbidden">>, 403,
                       Set(Empty, "content-type",
                           <<"text/plain;charset=UTF-8">>))]
        ELSE [isPreflight |-> FALSE]

\* handleCORS answering 403 to a request of any method whose Origin is not
\* the allowed one.
handleCORS_EveryMethod(request, allowed) ==
    LET origin == Get(request.headers, "origin")
    IN  IF origin # allowed
        THEN [isPreflight |-> TRUE,
              preflightResponse |-> Response(<<"Forbidden">>, 403,
                  Set(Empty, "content-type",
                      <<"text/plain;charset=UTF-8">>))]
        ELSE IF request.method = "OPTIONS"
        THEN [isPreflight |-> TRUE,
              preflightResponse |-> Response(Null, 204,
                  [n \in {"access-control-allow-origin",
                          "access-control-allow-methods",
                          "access-control-allow-headers",
                          "access-control-max-age",
                          "access-control-allow-credentials"} |->
                     CASE n = "access-control-allow-origin" -> allowed
                       [] n = "access-control-allow-methods" ->
                            <<"GET, POST, PUT, DELETE, PATCH, OPTIONS">>
                       [] n = "access-control-allow-headers" ->
                            <<"Content-Type, Authorization">>
                       [] n = "access-control-max-age" ->
                            <<"8", "6", "4", "0", "0">>
                       [] n = "access-control-allow-credentials" ->
                            <<"true">>])]
        ELSE [isPreflight |-> FALSE]

handleCORS(request, allowed) ==
    LET origin == Get(request.headers, "origin")
    IN  IF request.method = "OPTIONS"
        THEN IF origin = allowed
             THEN [isPreflight |-> TRUE,
                   preflightResponse |-> Response(Null, 204,
                       [n \in {"access-control-allow-origin",
                               "access-control-allow-methods",
                               "access-control-allow-headers",
                               "access-control-max-age",
                               "access-control-allow-credentials"} |->
                          CASE n = "access-control-allow-origin" -> allowed
                            [] n = "access-control-allow-methods" ->
                                 <<"GET, POST, PUT, DELETE, PATCH, OPTIONS">>
                            [] n = "access-control-allow-headers" ->
                                 <<"Content-Type, Authorization">>
                            [] n = "access-control-max-age" ->
                                 <<"8", "6", "4", "0", "0">>
                            [] n = "access-control-allow-credentials" ->
                                 <<"true">>])]
             ELSE [isPreflight |-> TRUE,
                   preflightResponse |-> Response(<<"Forbidden">>, 403,
                       Set(Empty, "content-type",
                           <<"text/plain;charset=UTF-8">>))]
        ELSE [isPreflight |-> FALSE]

\* addCORSHeaders setting Vary: Origin whatever the origin of the request.
addCORSHeaders_VaryAlways(response, request, allowed) ==
    LET origin == Get(request.headers, "origin")
        h1 == Set(response.headers, "access-control-allow-origin", allowed)
        h2 == Set(h1, "access-control-allow-credentials", <<"true">>)
        h3 == Set(h2, "vary", <<"Origin">>)
    IN  IF origin = allowed
        THEN Response(response.body, response.status, h3)
        ELSE Response(response.body, response.status,
                      Set(response.headers, "vary", <<"Origin">>))

addCORSHeaders(response, request, allowed) ==
    LET origin == Get(request.headers, "origin")
        h1 == Set(response.headers, "access-control-allow-origin", allowed)
        h2 == Set(h1, "access-control-allow-credentials", <<"true">>)
        h3 == Set(h2, "vary", <<"Origin">>)
    IN  IF origin = allowed
        THEN Response(response.body, response.status, h3)
        ELSE response

\* The headers addSecurityHeaders sets, with their values.
SecurityHeaders ==
    [n \in {"x-frame-options", "x-content-type-options", "x-xss-protection",
            "strict-transport-security", "content-security-policy",
            "referrer-policy", "permissions-policy"} |->
       CASE n = "x-frame-options" -> <<"DENY">>
         [] n = "x-content-type-options" -> <<"nosniff">>
         [] n = "x-xss-protection" -> <<"1; mode=block">>
         [] n = "strict-transport-security" ->
              <<"max-age=31536000; includeSubDomains">>
         [] n = "content-security-policy" ->
              <<"default-src 'self'; script-src 'self' 'unsafe-inline' 'unsafe-eval'; style-src 'self' 'unsafe-inline' https://fonts.googleapis.com; font-src 'self' https://fonts.gstatic.com; img-src 'self' data: https:; connect-src 'self'">>
         [] n = "referrer-policy" -> <<"strict-origin-when-cross-origin">>
         [] n = "permissions-policy" ->
              <<"geolocation=(), microphone=(), camera=(), payment=(), usb=(), magnetometer=(), gyroscope=(), speaker=()">>]

\* addSecurityHeaders starting from `new Headers()` in the place of
\* `new Headers(response.headers)`.
addSecurityHeaders_FreshHeaders(response) ==
    Response(response.body, response.status, SecurityHeaders)

addSecurityHeaders(response) ==
    Response(response.body, response.status,
             [n \in DOMAIN response.headers \cup DOMAIN SecurityHeaders |->
                IF n \in DOMAIN SecurityHeaders THEN SecurityHeaders[n]
                ELSE response.headers[n]])

-----------------------------------------------------------------------------
(* The inputs.                                                             *)

Handlers == 1..NumHandlers

\* Content-Length values around the limit of 10mb = 10485760 bytes.
ContentLengths ==
    {<<"1", "0", "4", "8", "5", "7", "6", "0">>,
     <<"1", "0", "4", "8", "5", "7", "6", "1">>}

ClientIps == {<<"203.0.113.1">>, <<"203.0.113.2">>}

\* The clients of Spec: a browser on the allowed origin, and a client that
\* sends no Origin header, each behind its own address.
Peers ==
    {[ip |-> <<"203.0.113.1">>, origin |-> allowedOrigin],
     [ip |-> <<"203.0.113.2">>, origin |-> Null]}

\* A Request: its method, its headers, and whether its body has been read.
Request(method, contentLength, origin, ip) ==
    [method  |-> method,
     bodyUsed |-> FALSE,
     headers |->
        [n \in {"content-length" : x \in {contentLength} \ {Null}}
               \cup {"origin" : x \in {origin} \ {Null}}
               \cup {"cf-connecting-ip" : x \in {ip} \ {Null}} |->
           CASE n = "content-length" -> contentLength
             [] n = "origin" -> origin
             [] n = "cf-connecting-ip" -> ip]]

\* The requests the worker receives.
Requests ==
    {Request(m, cl, peer.origin, peer.ip) :
        m \in {"POST", "OPTIONS"}, cl \in ContentLengths \cup {Null},
        peer \in Peers}

\* The requests checkRateLimit is called with in SpecLimiter.
LimiterRequests ==
    {Request("POST", Null, allowedOrigin, ip) : ip \in ClientIps}

\* What the React Router request handler may answer.
DownstreamResponses ==
    {Response(<<"{explanation}">>, 200,
              Set(Empty, "content-type", <<"application/json">>)),
     Response(<<"<html>">>, 200,
              Set(Set(Empty, "content-type", <<"text/html">>),
                  "x-frame-options", <<"SAMEORIGIN">>))}

\* The window lengths the constructor of RateLimiter is given in Spec.
Windows == {2}

\* Nothing yet: the value of a local of a fetch call before it is assigned.
None == <<>>

-----------------------------------------------------------------------------
(* The state machine.                                                      *)

\* addSecurityHeaders not called.
NoDecoration ==
    /\ handlerResponse = None
    /\ decorated = None

\* The chat page with no assistant message, and so no TypingAnimation.
NoAnimation ==
    /\ message = None
    /\ completionTimeout = {}
    /\ displayedText = <<>>
    /\ isComplete = FALSE
    /\ intervalRef = FALSE
    /\ stoppedRef = FALSE
    /\ currentIndex = 0
    /\ onComplete = 0

\* The explain-code action not called.
NoAction ==
    /\ actionPc = "idle"
    /\ formData = None
    /\ aiRuns = <<>>
    /\ aiResult = None
    /\ actionResponse = None

\* new RateLimiter(maxRequests, windowMs) with an empty table, applyMiddleware
\* configured with the size limit `limit`, and no fetch call in flight.
InitConfigured(quota, window, limit) ==
    /\ now = 0
    /\ maxRequests = quota
    /\ windowMs = window
    /\ bodySizeLimit = limit
    /\ requests = Empty
    /\ pc = [h \in Handlers |-> "idle"]
    /\ req = [h \in Handlers |-> None]
    /\ bodyCheck = [h \in Handlers |-> None]
    /\ middlewareResult = [h \in Handlers |-> None]
    /\ resp = [h \in Handlers |-> None]
    /\ evaluated = [h \in Handlers |-> <<>>]
    /\ admitted = Empty
    /\ served = 0
    /\ ticks = 0
    /\ log = <<>>
    /\ NoDecoration
    /\ NoAnimation
    /\ NoAction

\* The worker as fetch configures it: bodySizeLimit "10mb".
InitWith(quota, window) ==
    InitConfigured(quota, window, Options.bodySizeLimit)

Init == \E quota \in 1..MaxQuota, window \in Windows : InitWith(quota, window)

\* Time passes, by one of `durations`, at most `budget` times.
Elapse(durations, budget) ==
    /\ ticks < budget
    /\ \E d \in durations : now' = now + d
    /\ ticks' = ticks + 1
    /\ UNCHANGED <<decorateVars, typingVars, actionVars>>
    /\ UNCHANGED <<maxRequests, windowMs, bodySizeLimit, requests, pc, req, bodyCheck,
                   middlewareResult, resp, evaluated, admitted, served, log>>

\* The clock of the gate: a millisecond passes, or more than a window.
Tick == Elapse({1, windowMs + 1}, MaxTicks)

\* One more admission counted for the window of `clientId` that ends at
\* resetAt; the count of an earlier window of the client is dropped, no
\* verdict can name it again.
Count(bag, clientId, resetAt) ==
    Set(bag, clientId,
        IF clientId \in DOMAIN bag /\ bag[clientId].resetAt = resetAt
        THEN [resetAt |-> resetAt, n |-> bag[clientId].n + 1]
        ELSE [resetAt |-> resetAt, n |-> 1])

\* A slot is free when no fetch call runs in it: it was never used, or the
\* call that ran in it has returned.
Free(h) == pc[h] \in {"idle", "returned"}

\* fetch is entered with request r, in the first free slot: handleCORS, then
\* applyMiddleware up to its await of checkBodySizeLimit (which runs to its
\* end when called).
fetch(h, r) ==
    /\ Free(h)
    /\ \A g \in Handlers : g < h => ~Free(g)
    /\ served < MaxServed
    /\ served' = served + 1
    /\ req' = [req EXCEPT ![h] = r]
    /\ middlewareResult' = [middlewareResult EXCEPT ![h] = None]
    /\ LET corsResult == handleCORS(r, allowedOrigin)
       IN  IF corsResult.isPreflight
           THEN /\ resp' = [resp EXCEPT ![h] = corsResult.preflightResponse]
                /\ pc' = [pc EXCEPT ![h] = "returned"]
                /\ evaluated' = [evaluated EXCEPT ![h] = <<"cors">>]
                /\ bodyCheck' = [bodyCheck EXCEPT ![h] = None]
           ELSE /\ bodyCheck' = [bodyCheck EXCEPT
                                   ![h] = checkBodySizeLimit(r, bodySizeLimit)]
                /\ pc' = [pc EXCEPT ![h] = "awaitBodyCheck"]
                /\ evaluated' = [evaluated EXCEPT ![h] = <<"cors", "size">>]
                /\ resp' = [resp EXCEPT ![h] = None]
    /\ UNCHANGED <<decorateVars, typingVars, actionVars>>
    /\ UNCHANGED <<now, maxRequests, windowMs, bodySizeLimit, requests, admitted, ticks, log>>

\* applyMiddleware calling checkRateLimit before it looks at the result of
\* the size check.
applyMiddleware_RateFirst(h) ==
    /\ pc[h] = "awaitBodyCheck"
    /\ \E random \in BOOLEAN :
         LET rateCheck == checkRateLimit(requests, req[h],
                              Options.rateLimit.maxRequests,
                              Options.rateLimit.windowMs, random)
         IN  /\ requests' = rateCheck.requests
             /\ evaluated' = [evaluated EXCEPT ![h] = Append(@, "rate")]
             /\ admitted' =
                  IF rateCheck.verdict.allowed
                  THEN Count(admitted, getClientId(req[h]),
                             rateCheck.verdict.resetAt)
                  ELSE admitted
             /\ middlewareResult' = [middlewareResult EXCEPT ![h] =
                  IF ~bodyCheck[h].valid
                  THEN [error |-> bodyCheck[h].error]
                  ELSE IF ~rateCheck.value.allowed
                  THEN [error |-> rateCheck.value.error]
                  ELSE [modifiedRequest |-> req[h]]]
             /\ pc' = [pc EXCEPT ![h] = "awaitMiddleware"]
    /\ UNCHANGED <<decorateVars, typingVars, actionVars>>
    /\ UNCHANGED <<now, maxRequests, windowMs, bodySizeLimit, req, bodyCheck, resp, served,
                   ticks, log>>

\* applyMiddleware returning the request next to the error.
applyMiddleware_RequestWithError(h) ==
    /\ pc[h] = "awaitBodyCheck"
    /\ IF "threw" \in DOMAIN bodyCheck[h]
       THEN /\ pc' = [pc EXCEPT ![h] = "threw"]
            /\ UNCHANGED <<requests, middlewareResult, evaluated, admitted>>
       ELSE IF ~bodyCheck[h].valid
       THEN /\ middlewareResult' = [middlewareResult EXCEPT
                                      ![h] = [error |-> bodyCheck[h].error,
                                              modifiedRequest |-> req[h]]]
            /\ pc' = [pc EXCEPT ![h] = "awaitMiddleware"]
            /\ UNCHANGED <<requests, evaluated, admitted>>
       ELSE \E random \in BOOLEAN :
            \E rateCheck \in {checkRateLimit(requests, req[h],
                                 Options.rateLimit.maxRequests,
                                 Options.rateLimit.windowMs, random)} :
                /\ requests' = rateCheck.requests
                /\ evaluated' = [evaluated EXCEPT ![h] = Append(@, "rate")]
                /\ admitted' =
                     IF rateCheck.verdict.allowed
                     THEN Count(admitted, getClientId(req[h]),
                                rateCheck.verdict.resetAt)
                     ELSE admitted
                /\ middlewareResult' = [middlewareResult EXCEPT ![h] =
                     IF ~rateCheck.value.allowed
                     THEN [error |-> rateCheck.value.error,
                           modifiedRequest |-> req[h]]
                     ELSE [modifiedRequest |-> req[h]]]
                /\ pc' = [pc EXCEPT ![h] = "awaitMiddleware"]
    /\ UNCHANGED <<decorateVars, typingVars, actionVars>>
    /\ UNCHANGED <<now, maxRequests, windowMs, bodySizeLimit, req, bodyCheck,
                   resp, served, ticks, log>>

\* applyMiddleware resumes after `await checkBodySizeLimit` and runs to its
\* return.
applyMiddleware(h) ==
    /\ pc[h] = "awaitBodyCheck"
    /\ IF "threw" \in DOMAIN bodyCheck[h]
       THEN /\ pc' = [pc EXCEPT ![h] = "threw"]
            /\ UNCHANGED <<requests, middlewareResult, evaluated, admitted>>
       ELSE IF ~bodyCheck[h].valid
       THEN /\ middlewareResult' = [middlewareResult EXCEPT
                                      ![h] = [error |-> bodyCheck[h].error]]
            /\ pc' = [pc EXCEPT ![h] = "awaitMiddleware"]
            /\ UNCHANGED <<requests, evaluated, admitted>>
       ELSE \E random \in BOOLEAN :
            \E rateCheck \in {checkRateLimit(requests, req[h],
                                 Options.rateLimit.maxRequests,
                                 Options.rateLimit.windowMs, random)} :
                /\ requests' = rateCheck.requests
                /\ evaluated' = [evaluated EXCEPT ![h] = Append(@, "rate")]
                /\ admitted' =
                     IF rateCheck.verdict.allowed
                     THEN Count(admitted, getClientId(req[h]),
                                rateCheck.verdict.resetAt)
                     ELSE admitted
                /\ middlewareResult' = [middlewareResult EXCEPT ![h] =
                     IF ~rateCheck.value.allowed
                     THEN [error |-> rateCheck.value.error]
                     ELSE [modifiedRequest |-> req[h]]]
                /\ pc' = [pc EXCEPT ![h] = "awaitMiddleware"]
    /\ UNCHANGED <<decorateVars, typingVars, actionVars>>
    /\ UNCHANGED <<now, maxRequests, windowMs, bodySizeLimit, req, bodyCheck, resp, served,
                   ticks, log>>

\* fetch calling the request handler whatever applyMiddleware returned.
fetchResume_AlwaysForwards(h) ==
    /\ pc[h] = "awaitMiddleware"
    /\ pc' = [pc EXCEPT ![h] = "awaitHandler"]
    /\ evaluated' = [evaluated EXCEPT ![h] = Append(@, "downstream")]
    /\ UNCHANGED resp
    /\ UNCHANGED <<decorateVars, typingVars, actionVars>>
    /\ UNCHANGED <<now, maxRequests, windowMs, bodySizeLimit, requests, req,
                   bodyCheck, middlewareResult, admitted, served, ticks, log>>

\* fetch returning the error of the middleware as it is, undecorated.
fetchResume_BareError(h) ==
    /\ pc[h] = "awaitMiddleware"
    /\ IF "error" \in DOMAIN middlewareResult[h]
       THEN /\ resp' = [resp EXCEPT ![h] = middlewareResult[h].error]
            /\ pc' = [pc EXCEPT ![h] = "returned"]
            /\ UNCHANGED evaluated
       ELSE /\ pc' = [pc EXCEPT ![h] = "awaitHandler"]
            /\ evaluated' = [evaluated EXCEPT ![h] = Append(@, "downstream")]
            /\ UNCHANGED resp
    /\ UNCHANGED <<decorateVars, typingVars, actionVars>>
    /\ UNCHANGED <<now, maxRequests, windowMs, bodySizeLimit, requests, req,
                   bodyCheck, middlewareResult, admitted, served, ticks, log>>

\* fetch resumes after `await applyMiddleware`: the error is returned
\* decorated, or the request handler of React Router is called and awaited.
fetchResume(h) ==
    /\ pc[h] = "awaitMiddleware"
    /\ IF "error" \in DOMAIN middlewareResult[h]
       THEN /\ resp' = [resp EXCEPT ![h] =
                  addCORSHeaders(addSecurityHeaders(middlewareResult[h].error),
                                 req[h], allowedOrigin)]
            /\ pc' = [pc EXCEPT ![h] = "returned"]
            /\ UNCHANGED evaluated
       ELSE /\ pc' = [pc EXCEPT ![h] = "awaitHandler"]
            /\ evaluated' = [evaluated EXCEPT ![h] = Append(@, "downstream")]
            /\ UNCHANGED resp
    /\ UNCHANGED <<decorateVars, typingVars, actionVars>>
    /\ UNCHANGED <<now, maxRequests, windowMs, bodySizeLimit, requests, req, bodyCheck,
                   middlewareResult, admitted, served, ticks, log>>

\* The request handler answers with `response`; fetch decorates and returns it.
fetchReturn(h, response) ==
    /\ pc[h] = "awaitHandler"
    /\ resp' = [resp EXCEPT ![h] =
          addCORSHeaders(addSecurityHeaders(response), req[h], allowedOrigin)]
    /\ pc' = [pc EXCEPT ![h] = "returned"]
    /\ UNCHANGED <<decorateVars, typingVars, actionVars>>
    /\ UNCHANGED <<now, maxRequests, windowMs, bodySizeLimit, requests, req, bodyCheck,
                   middlewareResult, evaluated, admitted, served, ticks, log>>

\* One fetch call at a time, over every kind of request.
Next ==
    \/ Tick
    \/ \E r \in Requests : fetch(1, r)
    \/ applyMiddleware(1)
    \/ fetchResume(1)
    \/ \E response \in DownstreamResponses : fetchReturn(1, response)

Spec == Init /\ [][Next]_vars

\* The requests of SpecConcurrent: a POST of each client, no length declared.
ConcurrentRequests ==
    {r \in Requests :
        /\ r.method = "POST"
        /\ Get(r.headers, "content-length") = Null}

\* Fetch calls in flight together, interleaved at their awaits.
NextConcurrent ==
    \/ Tick
    \/ \E h \in Handlers, r \in ConcurrentRequests : fetch(h, r)
    \/ \E h \in Handlers : applyMiddleware(h)
    \/ \E h \in Handlers : fetchResume(h)
    \/ \E h \in Handlers : fetchReturn(h, CHOOSE d \in DownstreamResponses : d.headers["content-type"] = <<"application/json">>)

SpecConcurrent == Init /\ [][NextConcurrent]_vars

\* The Origin headers of SpecCors: the allowed origin, the allowed origin
\* with a trailing slash, another origin, an empty one, and none.
CorsOrigins ==
    {allowedOrigin, <<"https://your-domain.com/">>,
     <<"https://other.example">>, <<>>, Null}

\* The requests of SpecCors: preflights and POSTs of one client, from each
\* origin, no length declared.
CorsRequests ==
    {Request(m, Null, origin, <<"203.0.113.1">>) :
        m \in {"POST", "OPTIONS"}, origin \in CorsOrigins}

\* One fetch call at a time, over the origins.
NextCors ==
    \/ Tick
    \/ \E r \in CorsRequests : fetch(1, r)
    \/ applyMiddleware(1)
    \/ fetchResume(1)
    \/ \E response \in DownstreamResponses : fetchReturn(1, response)

SpecCors == Init /\ [][NextCors]_vars

-----------------------------------------------------------------------------
(* The rate limiter on its own: checkRateLimit called request after        *)
(* request, as the calls follow each other on the one thread of the worker.*)

\* One call of checkRateLimit, recorded with the table before and after it.
rateLimitCall(r) ==
    /\ Len(log) < MaxCalls
    /\ \E random \in BOOLEAN :
         \E rateCheck \in {checkRateLimit(requests, r,
                              Options.rateLimit.maxRequests,
                              Options.rateLimit.windowMs, random)} :
             /\ requests' = rateCheck.requests
             /\ log' = Append(log,
                   [request   |-> r,
                    clientId  |-> getClientId(r),
                    at        |-> now,
                    before    |-> requests,
                    after     |-> rateCheck.requests,
                    allowed   |-> rateCheck.verdict.allowed,
                    remaining |-> rateCheck.verdict.remaining,
                    resetAt   |-> rateCheck.verdict.resetAt,
                    value     |-> rateCheck.value])
    /\ UNCHANGED <<decorateVars, typingVars, actionVars>>
    /\ UNCHANGED <<now, maxRequests, windowMs, bodySizeLimit, pc, req, bodyCheck,
                   middlewareResult, resp, evaluated, admitted, served, ticks>>

\* The clock of the limiter: a millisecond passes, or exactly a window.
TickLimiter == Elapse({1, windowMs}, MaxElapses)

NextLimiter ==
    \/ TickLimiter
    \/ \E r \in LimiterRequests : rateLimitCall(r)

SpecLimiter == Init /\ [][NextLimiter]_vars

\* The size limits of SpecConfig, as strings: "1kb", "1KB", "2048" and "10mb",
\* and the malformed "kb" and "1tb".
SizeLimits ==
    {<<"1", "k", "b">>, <<"1", "K", "B">>, <<"2", "0", "4", "8">>,
     <<"1", "0", "m", "b">>, <<"k", "b">>, <<"1", "t", "b">>}

\* The Content-Length headers of SpecConfig: "512", "1024", "1025", "2048",
\* an empty one and none.
ConfigContentLengths ==
    {<<"5", "1", "2">>, <<"1", "0", "2", "4">>, <<"1", "0", "2", "5">>,
     <<"2", "0", "4", "8">>, <<>>, Null}

ConfigRequests ==
    {Request("POST", cl, allowedOrigin, <<"203.0.113.1">>) :
        cl \in ConfigContentLengths}

\* applyMiddleware given each of the size limits.
InitConfig ==
    \E quota \in 1..MaxQuota, window \in Windows, limit \in SizeLimits :
        InitConfigured(quota, window, limit)

NextConfig ==
    \/ Tick
    \/ \E r \in ConfigRequests : fetch(1, r)
    \/ applyMiddleware(1)
    \/ fetchResume(1)
    \/ \E response \in DownstreamResponses : fetchReturn(1, response)

SpecConfig == InitConfig /\ [][NextConfig]_vars

\* A POST with the three headers getClientId reads, each given or not.
IdentityRequest(userAgent, origin, ip) ==
    [method  |-> "POST",
     headers |->
        [n \in {"user-agent" : x \in {userAgent} \ {Null}}
               \cup {"origin" : x \in {origin} \ {Null}}
               \cup {"cf-connecting-ip" : x \in {ip} \ {Null}} |->
           CASE n = "user-agent" -> userAgent
             [] n = "origin" -> origin
             [] n = "cf-connecting-ip" -> ip]]

\* The requests of SpecIdentity: each header there or not, and requests
\* whose headers are there with an empty value.
IdentityRequests ==
    {IdentityRequest(ua, origin, ip) :
        ua \in {<<"curl/8.0">>, Null}, origin \in {allowedOrigin, Null},
        ip \in {<<"203.0.113.1">>, Null}}
    \cup {IdentityRequest(<<"curl/8.0">>, allowedOrigin, <<>>),
          IdentityRequest(<<>>, <<>>, Null)}

\* checkRateLimit called with requests of every identity, the clock still.
NextIdentity == \E r \in IdentityRequests : rateLimitCall(r)

SpecIdentity == Init /\ [][NextIdentity]_vars

\* The requests of SpecCollide, their header values character by character:
\* User-Agent and Origin with and without a "-" inside, missing, and equal
\* to the word "unknown"; a CF-Connecting-IP that reads like the join of a
\* User-Agent and an Origin; and two requests from one address.
CollideRequests ==
    {IdentityRequest(<<"a", "-", "b">>, <<"c">>, Null),
     IdentityRequest(<<"a">>, <<"b", "-", "c">>, Null),
     IdentityRequest(<<"a">>, <<"c">>, Null),
     IdentityRequest(Null, <<"c">>, Null),
     IdentityRequest(unknown, <<"c">>, Null),
     IdentityRequest(Null, Null, <<"a", "-", "b", "-", "c">>),
     IdentityRequest(<<"a">>, <<"c">>, <<"9">>),
     IdentityRequest(Null, Null, <<"9">>)}

\* checkRateLimit called with these requests, the clock still.
NextCollide == \E r \in CollideRequests : rateLimitCall(r)

SpecCollide == Init /\ [][NextCollide]_vars

\* The limiter with a window of a second and a half, and a clock that
\* advances by a millisecond, half a second or a second.
RetryWindows == {1500}

InitRetry == \E quota \in 1..MaxQuota, window \in RetryWindows :
                InitWith(quota, window)

TickRetry == Elapse({1, 500, 1000}, MaxElapses)

NextRetry ==
    \/ TickRetry
    \/ \E r \in LimiterRequests : rateLimitCall(r)

SpecRetry == InitRetry /\ [][NextRetry]_vars

\* One call of checkRateLimit in a stream of calls that does not end: only
\* the table, the admissions of each client's latest window and the parity
\* of the number of calls served are kept.  `random` is
\* Math.random() < 0.001, the call that sweeps.
checkRateLimitCall(r, random) ==
    /\ served' = (served + 1) % 2
    /\ \E rateCheck \in {checkRateLimit(requests, r,
                             Options.rateLimit.maxRequests,
                             Options.rateLimit.windowMs, random)} :
          /\ requests' = rateCheck.requests
          /\ admitted' =
               IF rateCheck.verdict.allowed
               THEN Count(admitted, getClientId(r), rateCheck.verdict.resetAt)
               ELSE admitted
    /\ UNCHANGED <<decorateVars, typingVars, actionVars>>
    /\ UNCHANGED <<now, maxRequests, windowMs, bodySizeLimit, pc, req,
                   bodyCheck, middlewareResult, resp, evaluated, ticks, log>>

\* A call that draws the sweep.
SweepingCall == \E r \in LimiterRequests : checkRateLimitCall(r, TRUE)

NextTraffic ==
    \/ TickLimiter
    \/ SweepingCall
    \/ \E r \in LimiterRequests : checkRateLimitCall(r, FALSE)

\* Requests keep arriving, and the draw of Math.random() is fair: a call
\* that sweeps keeps happening.
SpecTraffic == Init /\ [][NextTraffic]_vars /\ WF_vars(SweepingCall)

\* const rateLimiter = new RateLimiter(100, 60000)
\* The limiter constructed with any quota, a quota of zero included.
InitAnyQuota ==
    \E quota \in 0..MaxQuota, window \in Windows : InitWith(quota, window)

SpecAnyQuota == InitAnyQuota /\ [][NextLimiter]_vars

InitDeployed == InitWith(100, 60000)

SpecDeployed == InitDeployed /\ [][NextLimiter]_vars

-----------------------------------------------------------------------------
(* addSecurityHeaders on its own, over the responses a request handler or  *)
(* the middleware may hand to it.                                          *)

\* The worker as deployed, with no request in flight.
GateAtRest ==
    /\ now = 0
    /\ maxRequests = 100
    /\ windowMs = 60000
    /\ bodySizeLimit = Options.bodySizeLimit
    /\ requests = Empty
    /\ pc = [h \in Handlers |-> "idle"]
    /\ req = [h \in Handlers |-> None]
    /\ bodyCheck = [h \in Handlers |-> None]
    /\ middlewareResult = [h \in Handlers |-> None]
    /\ resp = [h \in Handlers |-> None]
    /\ evaluated = [h \in Handlers |-> <<>>]
    /\ admitted = Empty
    /\ served = 0
    /\ ticks = 0
    /\ log = <<>>

\* Headers a response may carry before it is decorated: three that
\* addSecurityHeaders does not name, and two that it does.
HandlerHeaders ==
    [n \in {"content-type", "set-cookie", "x-ratelimit-remaining",
            "x-frame-options", "referrer-policy"} |->
       CASE n = "content-type" -> <<"application/json">>
         [] n = "set-cookie" -> <<"session=1">>
         [] n = "x-ratelimit-remaining" -> <<"0">>
         [] n = "x-frame-options" -> <<"SAMEORIGIN">>
         [] n = "referrer-policy" -> <<"no-referrer">>]

HandlerResponses ==
    {Response(body, status, [n \in names |-> HandlerHeaders[n]]) :
        body \in {<<"{explanation}">>, <<"{error}">>},
        status \in {200, 404, 429},
        names \in SUBSET DOMAIN HandlerHeaders}

InitDecorate ==
    /\ GateAtRest
    /\ NoAnimation
    /\ NoAction
    /\ handlerResponse \in HandlerResponses
    /\ decorated = None

\* addSecurityHeaders called on the response, or on what it returned.
addSecurityHeadersCall ==
    /\ decorated' = addSecurityHeaders(IF decorated = None
                                       THEN handlerResponse ELSE decorated)
    /\ UNCHANGED <<handlerResponse, gateVars, typingVars, actionVars>>

NextDecorate == addSecurityHeadersCall

SpecDecorate == InitDecorate /\ [][NextDecorate]_vars

-----------------------------------------------------------------------------
(* The chat page: the latest assistant message of HomePage, and the        *)
(* TypingAnimation it renders while the message has isTyping set.  Each    *)
(* action is one task of the browser's event loop, with the render and the *)
(* effects that follow from it.  Renders are numbered; the number stands   *)
(* for the onComplete closure of the render, and for Date.now() as the id  *)
(* of a message.                                                           *)

\* Most renders of HomePage, each with an onComplete closure of its own.
MaxRenders == 3

\* data.explanation of the fetcher, as sequences of characters.
Explanations ==
    {<<"O", "K">>, <<"f", "o", "o">>, <<"a", " ", "b", "c">>}

\* The TypingAnimation of the message is mounted.
Mounted == message # None /\ message.isTyping

\* What the bubble of the message shows: the TypingAnimation while
\* message.isTyping, the MarkdownRenderer of message.content after it.
Displayed ==
    IF message = None THEN <<>>
    ELSE IF message.isTyping THEN displayedText
    ELSE message.content

\* The effect of TypingAnimation, run after the render number k of HomePage:
\* the cleanup of the previous run, then the body.
effect(k) ==
    /\ displayedText' = <<>>
    /\ isComplete' = FALSE
    /\ stoppedRef' = FALSE
    /\ currentIndex' = 0
    /\ intervalRef' = TRUE
    /\ onComplete' = k

\* The TypingAnimation is unmounted: the cleanup of its effect clears the
\* interval, and its state and refs are gone.
unmount ==
    /\ displayedText' = <<>>
    /\ isComplete' = FALSE
    /\ stoppedRef' = FALSE
    /\ currentIndex' = 0
    /\ intervalRef' = FALSE
    /\ UNCHANGED onComplete

\* The effect on fetcher.data, once the message before has been shown: the
\* message is added with isTyping, its completion timeout is set, and its
\* TypingAnimation mounts.
receiveExplanation(explanation) ==
    /\ ~Mounted
    /\ onComplete < MaxRenders
    /\ message' = [id |-> onComplete + 1, content |-> explanation,
                   isTyping |-> TRUE]
    /\ completionTimeout' = completionTimeout \cup {onComplete + 1}
    /\ effect(onComplete + 1)
    /\ UNCHANGED <<gateVars, decorateVars, actionVars>>

\* The callback of setInterval.
intervalCallback ==
    /\ Mounted
    /\ intervalRef
    /\ IF stoppedRef
       THEN /\ intervalRef' = FALSE
            /\ UNCHANGED <<message, displayedText, isComplete, stoppedRef,
                           currentIndex, onComplete>>
       ELSE IF currentIndex < Len(message.content)
       THEN /\ displayedText' = SubSeq(message.content, 1, currentIndex + 1)
            /\ currentIndex' = currentIndex + 1
            /\ UNCHANGED <<message, isComplete, intervalRef, stoppedRef,
                           onComplete>>
       ELSE /\ message' = [message EXCEPT !.isTyping = FALSE]
            /\ unmount
    /\ UNCHANGED completionTimeout
    /\ UNCHANGED <<gateVars, decorateVars, actionVars>>

\* The Stop button: typingRef.stop(), then isTyping is cleared.
stop ==
    /\ Mounted
    /\ message' = [message EXCEPT !.isTyping = FALSE]
    /\ unmount
    /\ UNCHANGED completionTimeout
    /\ UNCHANGED <<gateVars, decorateVars, actionVars>>

\* HomePage renders again while the message is typing (the watched code
\* field changed, the fetcher changed state): TypingAnimation is given a new
\* onComplete closure, and its effect, which depends on it, runs again.
parentRender ==
    /\ Mounted
    /\ onComplete < MaxRenders
    /\ effect(onComplete + 1)
    /\ UNCHANGED <<message, completionTimeout>>
    /\ UNCHANGED <<gateVars, decorateVars, actionVars>>

\* The completion timeout of the message `id` fires.
completionTimeoutFires(id) ==
    /\ id \in completionTimeout
    /\ completionTimeout' = completionTimeout \ {id}
    /\ IF message.id = id
       THEN /\ message' = [message EXCEPT !.isTyping = FALSE]
            /\ unmount
       ELSE UNCHANGED <<message, displayedText, isComplete, intervalRef,
                       stoppedRef, currentIndex, onComplete>>
    /\ UNCHANGED <<gateVars, decorateVars, actionVars>>

InitTyping ==
    /\ GateAtRest
    /\ NoDecoration
    /\ NoAnimation
    /\ NoAction

NextTyping ==
    \/ \E explanation \in Explanations : receiveExplanation(explanation)
    \/ intervalCallback
    \/ stop
    \/ parentRender
    \/ \E id \in 1..MaxRenders : completionTimeoutFires(id)

SpecTyping == InitTyping /\ [][NextTyping]_vars

-----------------------------------------------------------------------------
(* The action of routes/explain-code.ts, the request handler behind the    *)
(* gate for a POST of the form.                                            *)

\* Most calls of AI.run in a behaviour.
MaxRuns == 2

\* formData.get('code'): no such field, the empty string, a blank, some code.
Codes == {Null, <<>>, <<" ">>, <<"x = 1">>}

\* formData.get('language'): no such field, the empty string, a language.
Languages == {Null, <<>>, <<"JavaScript">>, <<"Python">>}

\* The bodies of the requests: the forms, and a body that is not a form.
Forms == [code : Codes, language : Languages]
NotAForm == [malformed |-> TRUE]

\* What AI.run settles with: a response with an output text and usage, a
\* response with neither, a rejection with the error of the service.
AiResults ==
    {[text |-> <<"This assigns 1 to x.">>, usage |-> [total_tokens |-> 42]],
     Empty,
     [threw |-> <<"InferenceUpstreamError: 3040: capacity exceeded">>]}

\* The template literal given to AI.run as input; LF is a line feed and
\* FENCE the three backticks of a code fence.
input(code, language) ==
    <<"Please explain this ">> \o language
        \o <<" code in simple terms: ", "LF", "LF", "FENCE">> \o code
        \o <<"FENCE">>

\* The action is called: `await request.formData()`.
action(body) ==
    /\ actionPc \in {"idle", "returned", "threw"}
    /\ Len(aiRuns) < MaxRuns
    /\ actionPc' = "awaitFormData"
    /\ formData' = body
    /\ aiResult' = None
    /\ actionResponse' = None
    /\ UNCHANGED aiRuns
    /\ UNCHANGED <<gateVars, decorateVars, typingVars>>

\* actionResume without the check of language.
actionResume_LanguageOptional ==
    /\ actionPc = "awaitFormData"
    /\ IF formData = NotAForm
       THEN /\ actionPc' = "threw"
            /\ UNCHANGED <<aiRuns, actionResponse>>
       ELSE LET code == formData.code
                language == IF Truthy(formData.language)
                            THEN formData.language ELSE <<>>
            IN  IF ~Truthy(code)
                THEN /\ actionResponse' =
                          ResponseJson([error |-> <<"Code is required">>],
                                       400, Empty)
                     /\ actionPc' = "returned"
                     /\ UNCHANGED aiRuns
                ELSE /\ aiRuns' = Append(aiRuns,
                          [model |-> <<"@cf/openai/gpt-oss-120b">>,
                           input |-> input(code, language)])
                     /\ actionPc' = "awaitAI"
                     /\ UNCHANGED actionResponse
    /\ UNCHANGED <<formData, aiResult>>
    /\ UNCHANGED <<gateVars, decorateVars, typingVars>>

\* The action resumes after formData(): the two checks, then AI.run is
\* called.  formData() rejecting is outside the try block.
actionResume ==
    /\ actionPc = "awaitFormData"
    /\ IF formData = NotAForm
       THEN /\ actionPc' = "threw"
            /\ UNCHANGED <<aiRuns, actionResponse>>
       ELSE LET code == formData.code
                language == IF Truthy(formData.language)
                            THEN formData.language ELSE <<>>
            IN  IF ~Truthy(code)
                THEN /\ actionResponse' =
                          ResponseJson([error |-> <<"Code is required">>],
                                       400, Empty)
                     /\ actionPc' = "returned"
                     /\ UNCHANGED aiRuns
                ELSE IF ~Truthy(language)
                THEN /\ actionResponse' =
                          ResponseJson([error |-> <<"Language is required">>],
                                       400, Empty)
                     /\ actionPc' = "returned"
                     /\ UNCHANGED aiRuns
                ELSE /\ aiRuns' = Append(aiRuns,
                          [model |-> <<"@cf/openai/gpt-oss-120b">>,
                           input |-> input(code, language)])
                     /\ actionPc' = "awaitAI"
                     /\ UNCHANGED actionResponse
    /\ UNCHANGED <<formData, aiResult>>
    /\ UNCHANGED <<gateVars, decorateVars, typingVars>>

\* AI.run settles with `result`; the action returns the explanation, or the
\* response of its catch block.
aiSettles(result) ==
    /\ actionPc = "awaitAI"
    /\ aiResult' = result
    /\ actionResponse' =
         IF "threw" \in DOMAIN result
         THEN ResponseJson([error |-> <<"Failed to explain code">>],
                           500, Empty)
         ELSE ResponseJson(
                [explanation |-> IF "text" \in DOMAIN result
                                 THEN result.text ELSE <<>>,
                 language |-> formData.language,
                 usage |-> IF "usage" \in DOMAIN result
                           THEN result.usage ELSE Empty],
                200, Empty)
    /\ actionPc' = "returned"
    /\ UNCHANGED <<formData, aiRuns>>
    /\ UNCHANGED <<gateVars, decorateVars, typingVars>>

InitExplain ==
    /\ GateAtRest
    /\ NoDecoration
    /\ NoAnimation
    /\ NoAction

NextExplain ==
    \/ \E body \in Forms \cup {NotAForm} : action(body)
    \/ actionResume
    \/ \E result \in AiResults : aiSettles(result)

SpecExplain == InitExplain /\ [][NextExplain]_vars

-----------------------------------------------------------------------------
(* Windows as the data model defines them, from the times of the calls     *)
(* alone: a client's window starts at its first request, or at its first   *)
(* request later than windowMs after the start of its previous window.     *)

Max(S) == CHOOSE x \in S : \A y \in S : y <= x

Calls == 1..Len(log)

\* The earlier calls of the client of call i.
Earlier(i) == {j \in 1..(i - 1) : log[j].clientId = log[i].clientId}

RECURSIVE WindowStart(_)
WindowStart(i) ==
    IF Earlier(i) = {} THEN log[i].at
    ELSE LET start == WindowStart(Max(Earlier(i)))
         IN  IF log[i].at > start + windowMs THEN log[i].at ELSE start

\* The calls of the client of call i in the window of call i, up to call i.
SameWindow(i) ==
    {j \in Earlier(i) \cup {i} : WindowStart(j) = WindowStart(i)}

\* The client's stored window before / after call i, when it has one.
Had(i)    == log[i].clientId \in DOMAIN log[i].before
Before(i) == log[i].before[log[i].clientId]
After(i)  == log[i].after[log[i].clientId]

-----------------------------------------------------------------------------
(* C1: the first maxRequests requests of a client inside one window are    *)
(* all admitted, and the next one inside the same window is denied, with a *)
(* 429 response and remaining = 0.                                         *)
C1_QuotaPerWindow ==
    \A i \in Calls :
        /\ Cardinality(SameWindow(i)) <= maxRequests =>
              /\ log[i].allowed
              /\ log[i].value.allowed
              /\ "error" \notin DOMAIN log[i].value
        /\ Cardinality(SameWindow(i)) = maxRequests + 1 =>
              /\ ~log[i].allowed
              /\ log[i].remaining = 0
              /\ ~log[i].value.allowed
              /\ log[i].value.error.status = 429
              /\ log[i].value.error.headers["x-ratelimit-remaining"] = <<"0">>

\* Three requests of one client in one window under a quota of two: the
\* third is the denied one.
C1_Witness ==
    /\ maxRequests = 2
    /\ \E i \in Calls :
          /\ Cardinality(SameWindow(i)) = 3
          /\ \A j \in SameWindow(i) \ {i} : log[j].allowed
          /\ ~log[i].allowed
          /\ log[i].value.error.status = 429

-----------------------------------------------------------------------------
(* C2: with fetch calls interleaved at every await, no client is admitted  *)
(* more than maxRequests times in one window, and a suspended call can     *)
(* always resume (nothing deadlocks).                                      *)
C2_AtomicCounter ==
    /\ \A c \in DOMAIN admitted : admitted[c].n <= maxRequests
    /\ \A h \in Handlers :
          /\ pc[h] = "awaitBodyCheck" => ENABLED applyMiddleware(h)
          /\ pc[h] = "awaitMiddleware" => ENABLED fetchResume(h)
          /\ pc[h] = "awaitHandler" =>
                \A d \in DownstreamResponses : ENABLED fetchReturn(h, d)
          /\ pc[h] \in {"idle", "returned", "awaitBodyCheck",
                        "awaitMiddleware", "awaitHandler"}

\* Two calls of the same client in flight together: one admitted and
\* suspended in the request handler, the other denied meanwhile, the quota
\* of the window used up.
C2_Witness ==
    \E h, g \in Handlers :
        /\ h # g
        /\ pc[h] = "awaitHandler"
        /\ pc[g] = "awaitMiddleware"
        /\ getClientId(req[h]) = getClientId(req[g])
        /\ "error" \in DOMAIN middlewareResult[g]
        /\ middlewareResult[g].error.status = 429
        /\ admitted[getClientId(req[h])].n = maxRequests

-----------------------------------------------------------------------------
(* C3: every response fetch returns carries the seven security headers     *)
(* with their values.                                                      *)
C3_AllResponsesSecured ==
    \A h \in Handlers :
        pc[h] = "returned" =>
            \A n \in {"x-frame-options", "x-content-type-options",
                      "x-xss-protection", "strict-transport-security",
                      "content-security-policy", "referrer-policy",
                      "permissions-policy"} :
                /\ n \in DOMAIN resp[h].headers
                /\ resp[h].headers[n] = SecurityHeaders[n]

-----------------------------------------------------------------------------
(* C4: the limiter enforces the window and the quota fetch configures: a   *)
(* client's fresh window ends options.rateLimit.windowMs after it starts   *)
(* and leaves options.rateLimit.maxRequests - 1 requests, and no client is *)
(* given a fresh window before the configured one has elapsed.             *)
C4_ConfiguredLimitsEnforced ==
    \A i \in Calls :
        /\ (log[i].allowed /\ After(i).count = 1) =>
              /\ log[i].resetAt = log[i].at + Options.rateLimit.windowMs
              /\ log[i].remaining = Options.rateLimit.maxRequests - 1
        /\ \A j \in Earlier(i) :
              (log[i].allowed /\ After(i).count = 1) =>
                  log[i].at > log[j].at + Options.rateLimit.windowMs

-----------------------------------------------------------------------------
(* C5: once a client's resetAt has elapsed its next request is admitted as *)
(* a fresh window, whatever the old count: count 1, resetAt = now +        *)
(* windowMs, remaining = maxRequests - 1.                                  *)
C5_FreshWindowAfterReset ==
    \A i \in Calls :
        (Had(i) /\ log[i].at > Before(i).resetAt) =>
            /\ log[i].allowed
            /\ After(i) = [count |-> 1, resetAt |-> log[i].at + windowMs]
            /\ log[i].remaining = maxRequests - 1
            /\ log[i].resetAt = log[i].at + windowMs

\* A client that was being denied asks again after its resetAt.
C5_Witness ==
    \E i \in Calls : \E j \in Earlier(i) :
        /\ ~log[j].allowed
        /\ Had(i)
        /\ Before(i).count >= maxRequests
        /\ log[i].at > Before(i).resetAt
        /\ log[i].allowed

-----------------------------------------------------------------------------
(* C6, as claimed: a request at a time t >= resetAt, t = resetAt included, *)
(* starts a fresh window.                                                  *)
C6_FreshFromResetAt ==
    \A i \in Calls :
        (Had(i) /\ log[i].at >= Before(i).resetAt) =>
            After(i) = [count |-> 1, resetAt |-> log[i].at + windowMs]

(* C6, amended: a request at a time t > resetAt starts a fresh window; a   *)
(* request at exactly t = resetAt is still counted, or denied, against the *)
(* old window.                                                             *)
C6_FreshOnlyAfterResetAt ==
    \A i \in Calls :
        Had(i) =>
            /\ log[i].at > Before(i).resetAt =>
                  After(i) = [count |-> 1, resetAt |-> log[i].at + windowMs]
            /\ log[i].at = Before(i).resetAt =>
                  /\ After(i).resetAt = Before(i).resetAt
                  /\ log[i].resetAt = Before(i).resetAt
                  /\ IF Before(i).count >= maxRequests
                     THEN ~log[i].allowed /\ After(i) = Before(i)
                     ELSE log[i].allowed
                          /\ After(i).count = Before(i).count + 1

\* Requests at exactly resetAt, one counted and one denied.
C6_Witness ==
    /\ \E i \in Calls :
          Had(i) /\ log[i].at = Before(i).resetAt /\ log[i].allowed
    /\ \E i \in Calls :
          Had(i) /\ log[i].at = Before(i).resetAt /\ ~log[i].allowed

-----------------------------------------------------------------------------
(* C7: within one window of one client the remaining of successive         *)
(* admitted requests starts at maxRequests - 1 and goes down by exactly 1, *)
(* and no verdict carries a negative remaining.                            *)
C7_RemainingCountsDown ==
    \A i \in Calls :
        /\ log[i].remaining >= 0
        /\ log[i].allowed =>
              LET prior == {j \in SameWindow(i) \ {i} : log[j].allowed}
              IN  IF prior = {}
                  THEN log[i].remaining = maxRequests - 1
                  ELSE log[i].remaining = log[Max(prior)].remaining - 1

\* Two admissions in one window, then a denial.
C7_Witness ==
    \E i \in Calls : \E j \in SameWindow(i) \ {i} : \E k \in Calls :
        /\ log[j].allowed /\ log[i].allowed
        /\ log[j].remaining = 1 /\ log[i].remaining = 0
        /\ i \in SameWindow(k) /\ ~log[k].allowed /\ log[k].remaining = 0

-----------------------------------------------------------------------------
(* C8, as claimed: a request of client A leaves the stored window of every *)
(* other client B as it was.                                               *)
C8_OthersUntouched ==
    \A i \in Calls :
        \A b \in DOMAIN log[i].before \ {log[i].clientId} :
            /\ b \in DOMAIN log[i].after
            /\ log[i].after[b] = log[i].before[b]

(* C8, amended: a request of client A leaves the stored window of another  *)
(* client B as it was, or removes it when it has already expired (the      *)
(* sweep); it gives B no window, and the verdict B's next request receives *)
(* at any later time is the same as without A's request.                   *)
C8_Isolation ==
    \A i \in Calls :
        \A rb \in LimiterRequests :
            LET b == getClientId(rb)
            IN  b # log[i].clientId =>
                /\ b \in DOMAIN log[i].before =>
                      \/ /\ b \in DOMAIN log[i].after
                         /\ log[i].after[b] = log[i].before[b]
                      \/ /\ b \notin DOMAIN log[i].after
                         /\ log[i].at > log[i].before[b].resetAt
                /\ b \notin DOMAIN log[i].before => b \notin DOMAIN log[i].after
                /\ \A t \in log[i].at..(log[i].at + windowMs + 1) :
                      isAllowed(log[i].after, rb, t).result
                          = isAllowed(log[i].before, rb, t).result

\* A call of one client while another has an open window, and a call of
\* one client that sweeps away the expired window of another.
C8_Witness ==
    /\ \E i \in Calls : \E b \in DOMAIN log[i].before \ {log[i].clientId} :
          /\ log[i].at <= log[i].before[b].resetAt
          /\ b \in DOMAIN log[i].after
    /\ \E i \in Calls : \E b \in DOMAIN log[i].before \ {log[i].clientId} :
          b \notin DOMAIN log[i].after

-----------------------------------------------------------------------------
\* The configured limit, "10mb", in bytes.
LimitBytes == 10 * 1024 * 1024

\* The declared length of the request of call h, when it declares one.
Declares(h)    == "content-length" \in DOMAIN req[h].headers
DeclaredLen(h) == DigitsValue(req[h].headers["content-length"])

(* C9, as claimed: a request whose Content-Length is above the limit is    *)
(* answered 413, whatever its method and the rate-limit state of its       *)
(* client.                                                                 *)
C9_OversizedAlways413 ==
    \A h \in Handlers :
        (pc[h] = "returned" /\ Declares(h) /\ DeclaredLen(h) > LimitBytes) =>
            resp[h].status = 413

(* C9, amended: a request other than OPTIONS whose Content-Length is above *)
(* the limit is answered 413, whatever the rate-limit state of its client  *)
(* (an OPTIONS request is answered by the preflight check before the size  *)
(* check); a request whose Content-Length is at or below the limit is      *)
(* never rejected by the size check.                                       *)
C9_SizeGuard ==
    \A h \in Handlers :
        (pc[h] = "returned" /\ Declares(h)) =>
            /\ (req[h].method # "OPTIONS" /\ DeclaredLen(h) > LimitBytes) =>
                  /\ resp[h].status = 413
                  /\ resp[h].body.error = <<"Payload too large">>
            /\ DeclaredLen(h) <= LimitBytes =>
                  /\ resp[h].status # 413
                  /\ req[h].method # "OPTIONS" => bodyCheck[h].valid

\* A 413 for a client whose quota of the open window is used up.
C9_Witness ==
    \E h \in Handlers :
          /\ pc[h] = "returned" /\ resp[h].status = 413
          /\ getClientId(req[h]) \in DOMAIN requests
          /\ requests[getClientId(req[h])].count >= maxRequests
          /\ now <= requests[getClientId(req[h])].resetAt

-----------------------------------------------------------------------------
\* The order of the checks.
Order == <<"cors", "size", "rate", "downstream">>

Range(s) == {s[i] : i \in 1..Len(s)}

IsPrefix(s, t) == Len(s) <= Len(t) /\ s = SubSeq(t, 1, Len(s))

(* C10: a request goes through the preflight check, the size check, the    *)
(* rate check and the request handler in this order; the check that        *)
(* rejects it is the last one evaluated, and a request rejected before the *)
(* rate check leaves the rate-limit table as it was.                       *)
C10_FixedOrder ==
    /\ [](\A h \in Handlers :
            /\ IsPrefix(evaluated[h], Order)
            /\ pc[h] = "returned" =>
                  /\ resp[h].status \in {204, 403} => evaluated[h] = <<"cors">>
                  /\ req[h].method = "OPTIONS" => evaluated[h] = <<"cors">>
                  /\ resp[h].status = 413 => evaluated[h] = <<"cors", "size">>
                  /\ resp[h].status = 429 =>
                        evaluated[h] = <<"cors", "size", "rate">>
                  /\ resp[h].status = 200 => evaluated[h] = Order)
    /\ [][\A h \in Handlers :
            /\ (Free(h) /\ pc'[h] = "returned") => requests' = requests
            /\ (pc[h] = "awaitBodyCheck" /\ pc'[h] # pc[h]
                   /\ "error" \in DOMAIN middlewareResult'[h]
                   /\ middlewareResult'[h].error.status = 413) =>
                  requests' = requests
            /\ (pc[h] = "awaitMiddleware" /\ pc'[h] = "returned") =>
                  requests' = requests]_vars

\* A request rejected by the size check: the rate check was not evaluated.
C10_Witness ==
    \E h \in Handlers :
        /\ pc[h] = "returned"
        /\ resp[h].status = 413
        /\ evaluated[h] = <<"cors", "size">>

-----------------------------------------------------------------------------
\* The names of the five headers of a preflight answer, and of the three
\* a decorated response carries.
PreflightHeaderNames ==
    {"access-control-allow-origin", "access-control-allow-methods",
     "access-control-allow-headers", "access-control-max-age",
     "access-control-allow-credentials"}
DecorationHeaderNames ==
    {"access-control-allow-origin", "access-control-allow-credentials", "vary"}

(* C11: an OPTIONS request whose Origin is exactly the configured origin   *)
(* is answered 204 with the five CORS headers; an OPTIONS request with any *)
(* other Origin, empty or missing included, is answered 403 with no CORS   *)
(* header.                                                                 *)
C11_Preflight ==
    \A h \in Handlers :
        (pc[h] = "returned" /\ req[h].method = "OPTIONS") =>
            IF Get(req[h].headers, "origin") = FRONTEND_URL
            THEN /\ resp[h].status = 204
                 /\ PreflightHeaderNames \subseteq DOMAIN resp[h].headers
                 /\ resp[h].headers["access-control-allow-origin"]
                        = FRONTEND_URL
                 /\ resp[h].headers["access-control-allow-methods"]
                        = <<"GET, POST, PUT, DELETE, PATCH, OPTIONS">>
                 /\ resp[h].headers["access-control-allow-headers"]
                        = <<"Content-Type, Authorization">>
                 /\ resp[h].headers["access-control-max-age"]
                        = <<"8", "6", "4", "0", "0">>
                 /\ resp[h].headers["access-control-allow-credentials"]
                        = <<"true">>
            ELSE /\ resp[h].status = 403
                 /\ DOMAIN resp[h].headers
                        \cap (PreflightHeaderNames \cup DecorationHeaderNames)
                      = {}

\* A preflight with an empty Origin header, answered 403.
C11_Witness ==
    \E h \in Handlers :
        /\ pc[h] = "returned" /\ req[h].method = "OPTIONS"
        /\ "origin" \in DOMAIN req[h].headers
        /\ req[h].headers["origin"] = <<>>
        /\ resp[h].status = 403

-----------------------------------------------------------------------------
\* What fetch hands to addCORSHeaders for call h: the error of the
\* middleware or an answer of the request handler, with the security
\* headers.
Undecorated(h) ==
    IF "error" \in DOMAIN middlewareResult[h]
    THEN {addSecurityHeaders(middlewareResult[h].error)}
    ELSE {addSecurityHeaders(d) : d \in DownstreamResponses}

(* C12: a response that is no preflight answer carries                     *)
(* Access-Control-Allow-Origin, with Access-Control-Allow-Credentials:     *)
(* true and Vary: Origin, exactly when the Origin of the request is the    *)
(* configured origin; for any other Origin it is returned as it was, with  *)
(* none of the three headers.                                              *)
C12_DecoratedIffAllowedOrigin ==
    \A h \in Handlers :
        (pc[h] = "returned" /\ req[h].method # "OPTIONS") =>
            IF Get(req[h].headers, "origin") = FRONTEND_URL
            THEN /\ DecorationHeaderNames \subseteq DOMAIN resp[h].headers
                 /\ resp[h].headers["access-control-allow-origin"]
                        = FRONTEND_URL
                 /\ resp[h].headers["access-control-allow-credentials"]
                        = <<"true">>
                 /\ resp[h].headers["vary"] = <<"Origin">>
                 /\ \E u \in Undecorated(h) :
                       /\ resp[h].status = u.status
                       /\ resp[h].body = u.body
                       /\ DOMAIN resp[h].headers
                            = DOMAIN u.headers \cup DecorationHeaderNames
                       /\ \A n \in DOMAIN u.headers :
                             resp[h].headers[n] = u.headers[n]
            ELSE /\ resp[h] \in Undecorated(h)
                 /\ DOMAIN resp[h].headers \cap DecorationHeaderNames = {}

\* An answer of the request handler returned to a request whose Origin is
\* the allowed origin with a trailing slash.
C12_Witness ==
    \E h \in Handlers :
        /\ pc[h] = "returned" /\ req[h].method = "POST"
        /\ Get(req[h].headers, "origin") = <<"https://your-domain.com/">>
        /\ resp[h].status = 200

-----------------------------------------------------------------------------
(* C13: a 413 or a 429 is decorated on the way out as an answer of the     *)
(* request handler is: it carries the security headers, and for a request  *)
(* from the allowed origin the CORS headers a downstream 200 would carry.  *)
C13_ErrorsDecorated ==
    \A h \in Handlers :
        (pc[h] = "returned" /\ resp[h].status \in {413, 429}) =>
            /\ \A n \in DOMAIN SecurityHeaders :
                  /\ n \in DOMAIN resp[h].headers
                  /\ resp[h].headers[n] = SecurityHeaders[n]
            /\ resp[h].body = middlewareResult[h].error.body
            /\ \A d \in DownstreamResponses :
                  LET ok == addCORSHeaders(addSecurityHeaders(d), req[h],
                                           allowedOrigin)
                  IN  \A n \in DecorationHeaderNames :
                        /\ n \in DOMAIN resp[h].headers
                              <=> n \in DOMAIN ok.headers
                        /\ n \in DOMAIN ok.headers =>
                              resp[h].headers[n] = ok.headers[n]
            /\ Get(req[h].headers, "origin") = FRONTEND_URL =>
                  /\ resp[h].headers["access-control-allow-origin"]
                        = FRONTEND_URL
                  /\ resp[h].headers["access-control-allow-credentials"]
                        = <<"true">>
                  /\ resp[h].headers["vary"] = <<"Origin">>

\* A 429 returned to a request from the allowed origin.
C13_Witness ==
    \E h \in Handlers :
        /\ pc[h] = "returned" /\ resp[h].status = 429
        /\ Get(req[h].headers, "origin") = FRONTEND_URL

-----------------------------------------------------------------------------
(* C14: every window stored in the table of the limiter has a count of at  *)
(* most maxRequests, after any sequence of admitted and denied requests,   *)
(* window resets and sweeps.                                               *)
C14_CountWithinQuota ==
    \A c \in DOMAIN requests :
        /\ requests[c].count >= 1
        /\ requests[c].count <= maxRequests

\* A window filled to a quota of two, after a denial and after a sweep that
\* removed a window.
C14_Witness ==
    /\ maxRequests = 2
    /\ \E c \in DOMAIN requests : requests[c].count = maxRequests
    /\ \E i \in Calls : ~log[i].allowed
    /\ \E i \in Calls : \E b \in DOMAIN log[i].before : b \notin DOMAIN log[i].after

-----------------------------------------------------------------------------
(* C15, as claimed: a denied request changes nothing in the table of the   *)
(* limiter.                                                                *)
C15_DenialChangesNothing ==
    \A i \in Calls : ~log[i].allowed => log[i].after = log[i].before

(* C15, amended: a denied request leaves the window of its client as it    *)
(* was, count and resetAt, and its verdict carries that resetAt with       *)
(* remaining 0; the only change it can make to the table is the sweep      *)
(* removing windows of other clients that have expired.                    *)
C15_DenialKeepsWindow ==
    \A i \in Calls :
        ~log[i].allowed =>
            /\ Had(i)
            /\ log[i].clientId \in DOMAIN log[i].after
            /\ After(i) = Before(i)
            /\ log[i].resetAt = Before(i).resetAt
            /\ log[i].remaining = 0
            /\ DOMAIN log[i].after \subseteq DOMAIN log[i].before
            /\ \A b \in DOMAIN log[i].before :
                  \/ /\ b \in DOMAIN log[i].after
                     /\ log[i].after[b] = log[i].before[b]
                  \/ /\ b \notin DOMAIN log[i].after
                     /\ b # log[i].clientId
                     /\ log[i].at > log[i].before[b].resetAt

\* A client denied twice, at two different times, in one window: and a
\* denial whose call swept away the expired window of another client.
C15_Witness ==
    /\ \E i, j \in Calls :
          /\ i < j /\ log[i].clientId = log[j].clientId
          /\ ~log[i].allowed /\ ~log[j].allowed
          /\ log[i].at < log[j].at
          /\ log[i].resetAt = log[j].resetAt
    /\ \E k \in Calls : ~log[k].allowed /\ log[k].after # log[k].before

-----------------------------------------------------------------------------
(* C16: every 429 carries X-RateLimit-Limit, X-RateLimit-Remaining: 0,     *)
(* X-RateLimit-Reset with the resetAt of the window, and Retry-After, the  *)
(* number of seconds ceil((resetAt - now) / 1000), which lies between 0    *)
(* and ceil(windowMs / 1000).                                              *)
C16_RetryAfter ==
    \A i \in Calls :
        ~log[i].allowed =>
            LET response == log[i].value.error
                wait     == Before(i).resetAt - log[i].at
            IN  /\ response.status = 429
                /\ {"x-ratelimit-limit", "x-ratelimit-remaining",
                    "x-ratelimit-reset", "retry-after"}
                      \subseteq DOMAIN response.headers
                /\ response.headers["x-ratelimit-limit"]
                      = <<"1", "0", "0">>
                /\ response.headers["x-ratelimit-remaining"] = <<"0">>
                /\ response.headers["x-ratelimit-reset"]
                      = toISOString(Before(i).resetAt)
                /\ \E k \in 0..(windowMs \div 1000 + 1) :
                      /\ response.headers["retry-after"] = NatToString(k)
                      /\ 1000 * (k - 1) < wait /\ wait <= 1000 * k
                      /\ 1000 * (k - 1) < windowMs

\* Denials with Retry-After 2, 1 and 0, the first with its reset time
\* spelled out.
C16_Witness ==
    /\ \E i \in Calls :
          /\ ~log[i].allowed
          /\ log[i].value.error.headers["retry-after"] = <<"2">>
          /\ log[i].at = 0
          /\ log[i].value.error.headers["x-ratelimit-reset"]
                = <<"1970-01-01T", "0", "0", ":", "0", "0", ":", "0", "1",
                    ".", "5", "0", "0", "Z">>
    /\ \E i \in Calls :
          /\ ~log[i].allowed
          /\ log[i].value.error.headers["retry-after"] = <<"1">>
    /\ \E i \in Calls :
          /\ ~log[i].allowed
          /\ log[i].value.error.headers["retry-after"] = <<"0">>

-----------------------------------------------------------------------------
\* Call i has counted in the bucket `key`: the window of that key is the
\* one it created or incremented, or the one it was denied against, and no
\* other key of the table was created or changed.
CountedIn(i, key) ==
    /\ key \in DOMAIN log[i].after
    /\ \A k \in DOMAIN log[i].after \ {key} :
          /\ k \in DOMAIN log[i].before
          /\ log[i].after[k] = log[i].before[k]
    /\ IF log[i].allowed
       THEN \/ key \notin DOMAIN log[i].before
            \/ log[i].after[key].count = log[i].before[key].count + 1
       ELSE /\ log[i].after[key].resetAt = log[i].resetAt
            /\ log[i].after[key].count >= maxRequests

\* A header of the request of call i: there, and there with a value.
Present(i, name) == name \in DOMAIN log[i].request.headers
Filled(i, name) ==
    Present(i, name) /\ log[i].request.headers[name] # <<>>

(* C17, as claimed: the bucket of a request is its CF-Connecting-IP header *)
(* whenever the header is present, and otherwise its User-Agent, "-", and  *)
(* its Origin, each "unknown" when missing.                                *)
C17_BucketByPresence ==
    \A i \in Calls :
        LET h  == log[i].request.headers
            userAgent == IF Present(i, "user-agent") THEN h["user-agent"]
                         ELSE unknown
            origin    == IF Present(i, "origin") THEN h["origin"]
                         ELSE unknown
        IN  IF Present(i, "cf-connecting-ip")
            THEN CountedIn(i, h["cf-connecting-ip"])
            ELSE CountedIn(i, userAgent \o <<"-">> \o origin)

(* C17, amended: the bucket of a request is its CF-Connecting-IP header    *)
(* whenever the header is present with a value (User-Agent and Origin are  *)
(* then ignored), and otherwise, the header absent or empty, its           *)
(* User-Agent, "-", and its Origin, each "unknown" when missing or empty.  *)
C17_BucketByValue ==
    \A i \in Calls :
        LET h  == log[i].request.headers
            userAgent == IF Filled(i, "user-agent") THEN h["user-agent"]
                         ELSE unknown
            origin    == IF Filled(i, "origin") THEN h["origin"]
                         ELSE unknown
        IN  IF Filled(i, "cf-connecting-ip")
            THEN CountedIn(i, h["cf-connecting-ip"])
            ELSE CountedIn(i, userAgent \o <<"-">> \o origin)

\* Two requests from one address with different User-Agent and Origin
\* headers, the second denied against the window of the first; and a
\* request without the address counted under "unknown-unknown".
C17_Witness ==
    /\ \E i, j \in Calls :
          /\ i < j
          /\ Filled(i, "cf-connecting-ip") /\ Filled(j, "cf-connecting-ip")
          /\ Present(i, "user-agent") /\ ~Present(j, "user-agent")
          /\ Present(i, "origin") /\ ~Present(j, "origin")
          /\ log[i].allowed /\ ~log[j].allowed
    /\ \E i \in Calls :
          /\ ~Present(i, "cf-connecting-ip")
          /\ ~Present(i, "user-agent") /\ ~Present(i, "origin")
          /\ unknown \o <<"-">> \o unknown \in DOMAIN log[i].after

-----------------------------------------------------------------------------
\* Call h has been through the size check.
SizeChecked(h) == pc[h] \notin {"idle"} /\ req[h].method # "OPTIONS"

(* C18: a request that declares no Content-Length passes the size check,   *)
(* whatever the limit, and the request handed on to the request handler is *)
(* the request that came in, its body unread.                              *)
C18_NoLengthPasses ==
    \A h \in Handlers :
        /\ (SizeChecked(h)
              /\ Get(req[h].headers, "content-length") \in {Null, <<>>}) =>
              /\ bodyCheck[h] = [valid |-> TRUE]
              /\ pc[h] # "threw"
              /\ pc[h] = "returned" => resp[h].status # 413
        /\ pc[h] = "awaitHandler" =>
              /\ middlewareResult[h].modifiedRequest = req[h]
              /\ ~middlewareResult[h].modifiedRequest.bodyUsed

\* A request without Content-Length on its way to the request handler,
\* under a limit that cannot be parsed.
C18_Witness ==
    \E h \in Handlers :
        /\ pc[h] = "awaitHandler"
        /\ "content-length" \notin DOMAIN req[h].headers
        /\ bodySizeLimit = <<"k", "b">>

-----------------------------------------------------------------------------
\* The limits that are digits with an optional unit b, kb, mb or gb.
WellFormedLimits ==
    {<<"1", "k", "b">>, <<"1", "K", "B">>, <<"2", "0", "4", "8">>,
     <<"1", "0", "m", "b">>}

(* C19: a malformed bodySizeLimit never raises an error while a request is *)
(* handled, and is never used as some limit to admit or reject a request   *)
(* (it is a fatal error at startup).                                       *)
C19_MalformedLimitFatalAtStartup ==
    \A h \in Handlers :
        /\ pc[h] # "threw"
        /\ (bodySizeLimit \notin WellFormedLimits /\ SizeChecked(h)
              /\ Truthy(Get(req[h].headers, "content-length"))) =>
              "valid" \notin DOMAIN bodyCheck[h]

-----------------------------------------------------------------------------
\* The well-formed limits in bytes, as decimal strings.
LimitBytesOf(limit) ==
    CASE limit = <<"1", "k", "b">> -> <<"1", "0", "2", "4">>
      [] limit = <<"1", "K", "B">> -> <<"1", "0", "2", "4">>
      [] limit = <<"2", "0", "4", "8">> -> <<"2", "0", "4", "8">>
      [] limit = <<"1", "0", "m", "b">> ->
            <<"1", "0", "4", "8", "5", "7", "6", "0">>

(* C20: the limit is read as digits with an optional unit b, kb, mb or gb, *)
(* in either case, in powers of 1024; a declared length above it gets the  *)
(* 413 whose message states the length and the limit in bytes, a declared  *)
(* length up to it passes.  With "1kb": 2048 is rejected with a message    *)
(* naming 2048 and 1024, 512 passes.                                       *)
C20_LimitInBytes ==
    \A h \in Handlers :
        (bodySizeLimit \in WellFormedLimits /\ SizeChecked(h)
            /\ Truthy(Get(req[h].headers, "content-length"))) =>
            LET length == req[h].headers["content-length"]
                limit  == LimitBytesOf(bodySizeLimit)
            IN  /\ "valid" \in DOMAIN bodyCheck[h]
                /\ bodyCheck[h].valid
                      <=> DigitsValue(length) <= DigitsValue(limit)
                /\ ~bodyCheck[h].valid =>
                      /\ bodyCheck[h].error.status = 413
                      /\ bodyCheck[h].error.body.message
                            = <<"Request body size (">> \o length
                                \o <<" bytes) exceeds limit (">> \o limit
                                \o <<" bytes)">>
                /\ (bodySizeLimit = <<"1", "k", "b">>
                      /\ length = <<"5", "1", "2">>) => bodyCheck[h].valid
                /\ (bodySizeLimit = <<"1", "k", "b">>
                      /\ length = <<"2", "0", "4", "8">>) =>
                      /\ ~bodyCheck[h].valid
                      /\ bodyCheck[h].error.body.message
                            = <<"Request body size (", "2", "0", "4", "8",
                                " bytes) exceeds limit (", "1", "0", "2", "4",
                                " bytes)">>

\* Under "1kb", a request with Content-Length 2048 answered 413.
C20_Witness ==
    \E h \in Handlers :
        /\ bodySizeLimit = <<"1", "k", "b">>
        /\ pc[h] = "returned"
        /\ Get(req[h].headers, "content-length") = <<"2", "0", "4", "8">>
        /\ resp[h].status = 413
        /\ resp[h].body.error = <<"Payload too large">>

-----------------------------------------------------------------------------
\* The window stored for the client of request r has ended.
Expired(r) ==
    /\ getClientId(r) \in DOMAIN requests
    /\ now > requests[getClientId(r)].resetAt

(* C21: under continued traffic and a fair draw of the sweep, every stored *)
(* window whose resetAt has passed is eventually gone from the table.      *)
C21_ExpiredReclaimed ==
    \A r \in LimiterRequests : Expired(r) ~> ~Expired(r)

\* A client that was admitted, whose window has ended, and whose entry is
\* no longer in the table, while the other client holds an open window.
C21_Witness ==
    \E c \in DOMAIN admitted :
        /\ c \notin DOMAIN requests
        /\ now > admitted[c].resetAt
        /\ \E b \in DOMAIN requests : now <= requests[b].resetAt

-----------------------------------------------------------------------------
(* C22: the request handler is called only for a request that passed the   *)
(* preflight, size and rate checks, and with the request that came in; a   *)
(* request that got a terminal response (204, 403, 413, 429) is answered   *)
(* with it in the next step of its call, the request handler is not called *)
(* for it and no check is run again.                                       *)
C22_DownstreamOnlyAfterAllChecks ==
    /\ [](\A h \in Handlers :
            /\ (pc[h] # "idle" /\ "downstream" \in Range(evaluated[h])) =>
                  /\ evaluated[h] = Order
                  /\ req[h].method # "OPTIONS"
                  /\ bodyCheck[h] = [valid |-> TRUE]
                  /\ middlewareResult[h] = [modifiedRequest |-> req[h]]
                  /\ getClientId(req[h]) \in DOMAIN admitted
            /\ pc[h] = "awaitHandler" => "downstream" \in Range(evaluated[h])
            /\ (pc[h] = "returned"
                  /\ resp[h].status \in {204, 403, 413, 429}) =>
                  "downstream" \notin Range(evaluated[h]))
    /\ [][\A h \in Handlers :
            (pc[h] = "awaitMiddleware" /\ pc'[h] # pc[h]
               /\ "error" \in DOMAIN middlewareResult[h]) =>
                  /\ pc'[h] = "returned"
                  /\ resp'[h].status = middlewareResult[h].error.status
                  /\ resp'[h].body = middlewareResult[h].error.body
                  /\ evaluated'[h] = evaluated[h]
                  /\ requests' = requests]_vars

\* A request within the size limit, admitted by the limiter, handed to the
\* request handler.
C22_Witness ==
    \E h \in Handlers :
        /\ pc[h] = "awaitHandler"
        /\ Declares(h) /\ DeclaredLen(h) <= LimitBytes
        /\ getClientId(req[h]) \in DOMAIN admitted
        /\ middlewareResult[h].modifiedRequest = req[h]

-----------------------------------------------------------------------------
(* C23: what applyMiddleware returns holds an error response or the        *)
(* request to pass on, one of the two and never both.                      *)
C23_ErrorXorRequest ==
    \A h \in Handlers :
        (pc[h] \in {"awaitMiddleware", "awaitHandler"}
            \/ (pc[h] = "returned" /\ req[h].method # "OPTIONS")) =>
            /\ DOMAIN middlewareResult[h] \in {{"error"}, {"modifiedRequest"}}
            /\ "error" \in DOMAIN middlewareResult[h] =>
                  middlewareResult[h].error.status \in {413, 429}
            /\ "modifiedRequest" \in DOMAIN middlewareResult[h] =>
                  middlewareResult[h].modifiedRequest = req[h]

\* applyMiddleware has returned the 429 of a client over its quota.
C23_Witness ==
    \E h \in Handlers :
        /\ pc[h] = "awaitMiddleware"
        /\ DOMAIN middlewareResult[h] = {"error"}
        /\ middlewareResult[h].error.status = 429

-----------------------------------------------------------------------------
(* C25: a call that sweeps removes every entry whose resetAt is before the *)
(* time of the call, and removes or alters no entry whose window is still  *)
(* open; a call that does not sweep removes nothing.                       *)
C25_SweepExact ==
    [][\A r \in LimiterRequests : \A c \in DOMAIN requests :
          LET open == ~(now > requests[c].resetAt)
          IN  /\ (checkRateLimitCall(r, TRUE) /\ c # getClientId(r)) =>
                    /\ c \in DOMAIN requests' <=> open
                    /\ open => requests'[c] = requests[c]
              /\ (checkRateLimitCall(r, TRUE) /\ c = getClientId(r) /\ open) =>
                    /\ c \in DOMAIN requests'
                    /\ requests'[c].resetAt = requests[c].resetAt
                    /\ requests'[c].count >= requests[c].count
              /\ checkRateLimitCall(r, FALSE) =>
                    /\ c \in DOMAIN requests'
                    /\ c # getClientId(r) => requests'[c] = requests[c]]_vars

\* The expired window of one client has been swept, and the window of
\* another that ends at this very millisecond is still in the table.
C25_Witness ==
    \E c \in DOMAIN admitted : \E b \in DOMAIN requests :
        /\ c \notin DOMAIN requests
        /\ now > admitted[c].resetAt
        /\ now = requests[b].resetAt

-----------------------------------------------------------------------------
(* C28: a request answered with 204, 403 or 413 never reached the rate     *)
(* check, and the rate-limit table changes only in the step that runs the  *)
(* rate check of a request: such a request creates no window and uses no   *)
(* quota.                                                                  *)
C28_EarlyExitsLeaveTable ==
    /\ [](\A h \in Handlers :
            (pc[h] = "returned" /\ resp[h].status \in {204, 403, 413}) =>
                "rate" \notin Range(evaluated[h]))
    /\ [][requests' # requests =>
            \E h \in Handlers :
                /\ evaluated'[h] = Append(evaluated[h], "rate")
                /\ bodyCheck[h] = [valid |-> TRUE]
                /\ req[h].method # "OPTIONS"]_vars
    /\ [](\A r \in Requests :
            getClientId(r) \in DOMAIN requests =>
                getClientId(r) \in DOMAIN admitted)

\* A client whose oversized request was answered with 413 and who has no
\* window in the table.
C28_Witness ==
    \E h \in Handlers :
        /\ pc[h] = "returned"
        /\ resp[h].status = 413
        /\ getClientId(req[h]) \notin DOMAIN requests

-----------------------------------------------------------------------------
\* The table of a limiter that never sweeps, after the first i calls of log.
RECURSIVE Unswept(_)
Unswept(i) ==
    IF i = 0 THEN Empty
    ELSE isAllowed(Unswept(i - 1), log[i].request, log[i].at).requests

(* C29: every call receives the verdict (allowed, remaining, resetAt) that *)
(* a limiter that never sweeps gives it after the same earlier calls.      *)
C29_SweepInvisible ==
    \A i \in Calls :
        LET result == isAllowed(Unswept(i - 1), log[i].request,
                                log[i].at).result
        IN  /\ log[i].allowed = result.allowed
            /\ log[i].remaining = result.remaining
            /\ log[i].resetAt = result.resetAt

\* A sweep has removed a window that the limiter that never sweeps still
\* holds, and a call was made after it.
C29_Witness ==
    \E i \in Calls :
        /\ i > 1
        /\ log[i].before # Unswept(i - 1)
        /\ \E c \in DOMAIN Unswept(i - 1) : c \notin DOMAIN log[i].before

-----------------------------------------------------------------------------
\* The admitted calls of the client of call i from call i up to call j.
AdmittedBetween(i, j) ==
    {k \in i..j : log[k].clientId = log[i].clientId /\ log[k].allowed}

(* C30: the admissions of one client that lie within windowMs of each      *)
(* other are at most 2 * maxRequests.                                      *)
C30_TwiceQuotaPerInterval ==
    \A i \in Calls : \A j \in i..Len(log) :
        (log[j].at - log[i].at <= windowMs) =>
            Cardinality(AdmittedBetween(i, j)) <= 2 * maxRequests

\* Admissions of one client in two windows, within windowMs of each other
\* and more than one window's quota.
C30_Witness ==
    \E i \in Calls : \E j \in i..Len(log) :
        /\ log[j].clientId = log[i].clientId
        /\ log[i].allowed /\ log[j].allowed
        /\ log[j].at - log[i].at <= windowMs
        /\ log[i].resetAt # log[j].resetAt
        /\ Cardinality(AdmittedBetween(i, j)) > maxRequests

-----------------------------------------------------------------------------
(* C24: the response addSecurityHeaders returns has the status and the     *)
(* body of the response it was given, every header of it other than the    *)
(* seven it names, with its value, and no header besides these and the     *)
(* seven; decorating it once more returns it as it is.                     *)
C24_OnlySecurityHeaders ==
    decorated # None =>
        /\ decorated.status = handlerResponse.status
        /\ decorated.body = handlerResponse.body
        /\ \A n \in DOMAIN handlerResponse.headers \ DOMAIN SecurityHeaders :
              /\ n \in DOMAIN decorated.headers
              /\ decorated.headers[n] = handlerResponse.headers[n]
        /\ DOMAIN decorated.headers
              = DOMAIN handlerResponse.headers \cup DOMAIN SecurityHeaders
        /\ addSecurityHeaders(decorated) = decorated

\* A decorated 404 that came with a cookie and with an X-Frame-Options of
\* its own: the cookie is kept, the X-Frame-Options is the one of the seven.
C24_Witness ==
    /\ decorated # None
    /\ handlerResponse.status = 404
    /\ Get(handlerResponse.headers, "set-cookie") = <<"session=1">>
    /\ Get(handlerResponse.headers, "x-frame-options") = <<"SAMEORIGIN">>
    /\ Get(decorated.headers, "set-cookie") = <<"session=1">>
    /\ Get(decorated.headers, "x-frame-options") = <<"DENY">>

-----------------------------------------------------------------------------
(* C26: what the bubble of the message shows is a prefix of the message at *)
(* all times; no step makes it shorter, and no step makes it longer by     *)
(* more than one character while the animation goes on.                    *)
C26_DisplayedGrows ==
    /\ [](message # None => IsPrefix(Displayed, message.content))
    /\ [][(message # None /\ message'.id = message.id) =>
            /\ Len(Displayed') >= Len(Displayed)
            /\ (Mounted /\ Mounted') =>
                  Len(Displayed') <= Len(Displayed) + 1]_vars

-----------------------------------------------------------------------------
(* C27: AI.run is called only for a form whose code and language are both  *)
(* non-empty; a form without code is answered with 400 "Code is required", *)
(* a form with code and without language with 400 "Language is required",  *)
(* neither with a call of AI.run; a call of AI.run that fails is answered  *)
(* with 500 and the body { error: "Failed to explain code" } alone.        *)
C27_ValidatedBeforeAI ==
    /\ [](actionPc = "awaitAI" =>
            Truthy(formData.code) /\ Truthy(formData.language))
    /\ [](actionPc = "returned" =>
            /\ ~Truthy(formData.code) =>
                  /\ actionResponse.status = 400
                  /\ actionResponse.body = [error |-> <<"Code is required">>]
                  /\ aiResult = None
            /\ (Truthy(formData.code) /\ ~Truthy(formData.language)) =>
                  /\ actionResponse.status = 400
                  /\ actionResponse.body
                        = [error |-> <<"Language is required">>]
                  /\ aiResult = None
            /\ (aiResult # None /\ "threw" \in DOMAIN aiResult) =>
                  /\ actionResponse.status = 500
                  /\ actionResponse.body
                        = [error |-> <<"Failed to explain code">>])
    /\ [][aiRuns' # aiRuns =>
            /\ Truthy(formData.code) /\ Truthy(formData.language)
            /\ actionPc' = "awaitAI"
            /\ Len(aiRuns') = Len(aiRuns) + 1]_vars

\* The one call of AI.run so far, for a complete form, failed and was
\* answered with the 500.
C27_Witness ==
    /\ actionPc = "returned"
    /\ Len(aiRuns) = 1
    /\ aiResult # None /\ "threw" \in DOMAIN aiResult
    /\ actionResponse.status = 500

-----------------------------------------------------------------------------
(* C31: the request of a client that has no window, or whose window has    *)
(* ended, is allowed whatever maxRequests is, a maxRequests of zero        *)
(* included, with remaining = maxRequests - 1 and a window of its own      *)
(* that starts with it.                                                    *)
C31_FirstOfWindowAdmitted ==
    \A i \in Calls :
        (~Had(i) \/ log[i].at > Before(i).resetAt) =>
            /\ log[i].allowed
            /\ log[i].value.allowed
            /\ "error" \notin DOMAIN log[i].value
            /\ log[i].remaining = maxRequests - 1
            /\ log[i].resetAt = log[i].at + windowMs
            /\ log[i].clientId \in DOMAIN log[i].after
            /\ After(i).count = 1

\* Under a quota of zero: a client admitted with remaining = -1, denied in
\* the same window, and admitted again once the window has ended.
C31_Witness ==
    /\ maxRequests = 0
    /\ \E i \in Calls : \E j \in Earlier(i) : \E k \in Earlier(j) :
          /\ ~Had(k) /\ log[k].allowed /\ log[k].remaining = -1
          /\ ~log[j].allowed
          /\ log[i].at > Before(i).resetAt
          /\ log[i].allowed /\ log[i].remaining = -1

-----------------------------------------------------------------------------
\* The identity of a request as the data model defines it: its
\* CF-Connecting-IP, or without one its User-Agent and its Origin, each
\* there or missing.
Identity(request) ==
    IF "cf-connecting-ip" \in DOMAIN request.headers
    THEN [ip |-> request.headers["cf-connecting-ip"]]
    ELSE [userAgent |-> Get(request.headers, "user-agent"),
          origin |-> Get(request.headers, "origin")]

(* C32: two requests are counted in the same bucket exactly when they have *)
(* the same CF-Connecting-IP, or have none and have the same User-Agent    *)
(* and the same Origin.                                                    *)
C32_BucketIffIdentity ==
    \A i, j \in Calls :
        (log[i].clientId = log[j].clientId)
            <=> (Identity(log[i].request) = Identity(log[j].request))

-----------------------------------------------------------------------------
\* The request of call h is no preflight and its Origin is not the allowed
\* one.
OtherOrigin(h) ==
    /\ pc[h] # "idle"
    /\ req[h].method # "OPTIONS"
    /\ Get(req[h].headers, "origin") # allowedOrigin

(* C33: a request that is no preflight is never answered 403, whatever its *)
(* Origin: it goes on to the size check, and once it has passed the size   *)
(* and rate checks it is handed to the request handler; with an Origin     *)
(* other than the allowed one, or none, the answer of the handler comes    *)
(* back with the security headers and without the three CORS headers.      *)
C33_OriginNotEnforced ==
    /\ [](\A h \in Handlers :
            OtherOrigin(h) =>
                /\ "size" \in Range(evaluated[h])
                /\ pc[h] = "returned" =>
                      /\ resp[h].status \in {200, 413, 429}
                      /\ DOMAIN resp[h].headers \cap DecorationHeaderNames = {}
                      /\ DOMAIN SecurityHeaders \subseteq DOMAIN resp[h].headers
                      /\ middlewareResult[h] = [modifiedRequest |-> req[h]] =>
                            /\ evaluated[h] = Order
                            /\ \E d \in DownstreamResponses :
                                  /\ resp[h].status = d.status
                                  /\ resp[h].body = d.body)
    /\ [][\A h \in Handlers :
            /\ (pc'[h] # pc[h] /\ pc[h] \in {"idle", "returned"}
                  /\ req'[h].method # "OPTIONS") =>
                  pc'[h] = "awaitBodyCheck"
            /\ (pc[h] = "awaitMiddleware" /\ pc'[h] # pc[h]
                  /\ middlewareResult[h] = [modifiedRequest |-> req[h]]) =>
                  pc'[h] = "awaitHandler"]_vars

\* A POST from another origin, answered by the request handler, without
\* the CORS headers.
C33_Witness ==
    \E h \in Handlers :
        /\ pc[h] = "returned"
        /\ req[h].method = "POST"
        /\ Get(req[h].headers, "origin") = <<"https://other.example">>
        /\ evaluated[h] = Order
        /\ resp[h].status = 200
        /\ "access-control-allow-origin" \notin DOMAIN resp[h].headers

=============================================================================
